---------------------------- MODULE Spec2Model ----------------------------
(***************************************************************************)
(* A model of the buffer-source playback engine of web-audio-api-rs:       *)
(* the control-side handle AudioBufferSourceNode, the message channel to   *)
(* its render-side twin AudioBufferSourceRenderer, and the renderer's      *)
(* process / onmessage / before_drop.                                      *)
(*                                                                         *)
(* Representation of the f64 quantities.  Every time (seconds in the code) *)
(* is an integer number of ticks; one context sample period `dt` is        *)
(* `dt` ticks, so times half-way between two samples are representable.    *)
(* Sample rates are integers in a unit in which the context runs at        *)
(* `sample_rate`; a buffer at rate b.sample_rate has                       *)
(* sampling_ratio = b.sample_rate / sample_rate.  A playhead (in frames)   *)
(* is the rational  buffer_time * b.sample_rate / PlayheadDen ; output     *)
(* samples are stored multiplied by PlayheadDen, so the linear             *)
(* interpolation (1-k)*prev + k*next is exact integer arithmetic.          *)
(* Arithmetic is exact: the rounding of f64 is not modelled, and           *)
(* almost::equal is equality at tick resolution.                           *)
(***************************************************************************)
EXTENDS Integers, Sequences, FiniteSets, TLC

\* ------------------------------------------------------------------------
\* Bounds of the model
\* ------------------------------------------------------------------------

\* RENDER_QUANTUM_SIZE is 128 in the crate; the model renders blocks of this
\* many samples (every rule of process is relative to the block length).
RENDER_QUANTUM_SIZE == 4

\* Number of blocks the render thread processes in a behaviour.
MaxBlocks == 3

\* Longest buffer, in frames.
MaxLen == 5

\* Number of set_loop / set_loop_start / set_loop_end calls on one handle.
MaxLoopCalls == 1

\* Number of AudioBuffer messages sent to one processor.
MaxBufferMessages == 2

\* Number of messages of another type sent to one processor.
MaxOtherMessages == 1

\* Number of calls of register each control thread makes on one context.
MaxRegisterCalls == 2

\* ------------------------------------------------------------------------
\* Units
\* ------------------------------------------------------------------------

\* f64::MAX, the 'never' sentinel of start_time, stop_time and duration.
F64_MAX == 1000000

\* A non-finite f64 (rejected by assert_valid_time_value).
F64_INFINITY == F64_MAX + 1

\* f64::NAN: neither less than, nor equal to, nor greater than any value.
NaN == F64_MAX + 2

\* The f64 comparisons <, <=, > and >= (false when an operand is NaN).
Lt(a, b) == a # NaN /\ b # NaN /\ a < b
Le(a, b) == a # NaN /\ b # NaN /\ a <= b
Gt(a, b) == Lt(b, a)
Ge(a, b) == Le(b, a)

\* scope.sample_rate, in rate units.
sample_rate == 2

\* dt = 1 / sample_rate, in ticks.
dt == 2

\* Denominator of a playhead: playhead = buffer_time * b.sample_rate / PlayheadDen.
PlayheadDen == dt * sample_rate

\* block_duration = dt * RENDER_QUANTUM_SIZE
block_duration == dt * RENDER_QUANTUM_SIZE

\* ------------------------------------------------------------------------
\* AudioBuffer
\* ------------------------------------------------------------------------

None == [tag |-> "None"]

\* An AudioBuffer: its frames are a fixed ramp, different on every channel,
\* so that a sample value identifies the frame and the channel it was read from.
AudioBuffer(len, rate, nch) ==
    [sample_rate |-> rate, tag |-> "AudioBuffer", length |-> len,
     number_of_channels |-> nch]

\* buffer.channels()[ch][idx], idx counted from 0 as in the code.
ChannelSample(b, ch, idx) == (ch - 1) * 10 + idx + 1

\* buffer.duration() = length / sample_rate, in ticks.  The rates used
\* divide length * PlayheadDen.
BufferDuration(b) == (b.length * PlayheadDen) \div b.sample_rate

\* make_silent(): a single channel of zeros.
SilentBlock == << [i \in 1..RENDER_QUANTUM_SIZE |-> 0] >>

\* ------------------------------------------------------------------------
\* Small helpers
\* ------------------------------------------------------------------------

\* f64::round() of (t / d) for t >= 0, then `as usize`.
RoundDiv(t, d) == IF t < 0 THEN 0 ELSE (2 * t + d) \div (2 * d)

\* almost::equal at the resolution of the model.
AlmostEqual(a, b) == a = b

\* assert_valid_time_value: finite and non-negative.
IsValidTimeValue(v) == Ge(v, 0) /\ Le(v, F64_MAX)


\* ------------------------------------------------------------------------
\* Render side: AudioBufferSourceRenderer
\* ------------------------------------------------------------------------

\* AudioBufferRendererState::default()
DefaultRenderState ==
    [buffer_time |-> 0, started |-> FALSE, entered_loop |-> FALSE,
     buffer_time_elapsed |-> 0, is_aligned |-> FALSE, ended |-> FALSE]

\* The renderer built by AudioBufferSourceNode::new
NewRenderer(loop_state) ==
    [start_time |-> F64_MAX, stop_time |-> F64_MAX, duration |-> F64_MAX,
     offset |-> 0, buffer |-> None, loop_state |-> loop_state,
     render_state |-> DefaultRenderState]

\* ControlMessage variants and the AudioBuffer message
StartWithOffsetAndDuration(when, offset, duration) ==
    [type |-> "StartWithOffsetAndDuration", args |-> <<when, offset, duration>>]
Stop(when) == [type |-> "Stop", args |-> <<when>>]
Loop(b) == [type |-> "Loop", args |-> <<b>>]
LoopStart(v) == [type |-> "LoopStart", args |-> <<v>>]
LoopEnd(v) == [type |-> "LoopEnd", args |-> <<v>>]
SetBuffer(b) == [type |-> "AudioBuffer", args |-> <<b>>]

\* A message that is neither a ControlMessage nor an AudioBuffer.
OtherMessage == [type |-> "Other", args |-> <<>>]

\* ControlMessage::RegisterNode: the message that ships a renderer to the
\* render thread.
RegisterNode(id, render) == [type |-> "RegisterNode", id |-> id, node |-> render]

\* Seeded fault: a loop end past the end of the buffer is left as it is.
clamp_loop_boundaries_EndPastBuffer(r) ==
    IF r.buffer = None THEN r
    ELSE LET duration == BufferDuration(r.buffer)
             start == IF Lt(r.loop_state.start, 0) THEN 0
                      ELSE IF Gt(r.loop_state.start, duration) THEN duration
                      ELSE r.loop_state.start
             end == IF Le(r.loop_state.end, 0) THEN duration ELSE r.loop_state.end
         IN [r EXCEPT !.loop_state.start = start, !.loop_state.end = end]

\* clamp_loop_boundaries
clamp_loop_boundaries(r) ==
    IF r.buffer = None THEN r
    ELSE LET duration == BufferDuration(r.buffer)
             start == IF Lt(r.loop_state.start, 0) THEN 0
                      ELSE IF Gt(r.loop_state.start, duration) THEN duration
                      ELSE r.loop_state.start
             end == IF Le(r.loop_state.end, 0) \/ Gt(r.loop_state.end, duration)
                    THEN duration ELSE r.loop_state.end
         IN [r EXCEPT !.loop_state.start = start, !.loop_state.end = end]

\* Seeded fault: the Loop message is dropped by the processor.
handle_control_message_IgnoringLoop(r, m) ==
    LET r1 == CASE m.type = "StartWithOffsetAndDuration" ->
                     [r EXCEPT !.start_time = m.args[1], !.offset = m.args[2],
                               !.duration = m.args[3]]
                [] m.type = "Stop" -> [r EXCEPT !.stop_time = m.args[1]]
                [] m.type = "Loop" -> r
                [] m.type = "LoopStart" -> [r EXCEPT !.loop_state.start = m.args[1]]
                [] m.type = "LoopEnd" -> [r EXCEPT !.loop_state.end = m.args[1]]
    IN clamp_loop_boundaries(r1)

\* handle_control_message: the match, then the clamp (applied to every variant)
handle_control_message(r, m) ==
    LET r1 == CASE m.type = "StartWithOffsetAndDuration" ->
                     [r EXCEPT !.start_time = m.args[1], !.offset = m.args[2],
                               !.duration = m.args[3]]
                [] m.type = "Stop" -> [r EXCEPT !.stop_time = m.args[1]]
                [] m.type = "Loop" -> [r EXCEPT !.loop_state.is_looping = m.args[1]]
                [] m.type = "LoopStart" -> [r EXCEPT !.loop_state.start = m.args[1]]
                [] m.type = "LoopEnd" -> [r EXCEPT !.loop_state.end = m.args[1]]
    IN clamp_loop_boundaries(r1)

IsControlMessage(m) ==
    m.type \in {"StartWithOffsetAndDuration", "Stop", "Loop", "LoopStart", "LoopEnd"}

\* Seeded fault: a buffer is installed without clamping the loop bounds.
onmessage_InstallUnclamped(r, m) ==
    IF IsControlMessage(m) THEN handle_control_message(r, m)
    ELSE IF m.type = "AudioBuffer" THEN [r EXCEPT !.buffer = m.args[1]]
    ELSE r

\* onmessage: a ControlMessage, an AudioBuffer, or anything else (dropped).
\* With a buffer already installed the two are swapped and the clamp is not
\* run; otherwise the buffer is installed and the loop bounds are clamped.
onmessage(r, m) ==
    IF IsControlMessage(m) THEN handle_control_message(r, m)
    ELSE IF m.type = "AudioBuffer" THEN
        IF r.buffer # None THEN [r EXCEPT !.buffer = m.args[1]]
        ELSE clamp_loop_boundaries([r EXCEPT !.buffer = m.args[1]])
    ELSE r

\* The number of calls of clamp_loop_boundaries that onmessage(r, m) makes:
\* one at the end of handle_control_message, whatever the variant, one when
\* a buffer is installed, none when buffers are swapped or the message is
\* dropped.
ClampCalls(r, m) ==
    IF IsControlMessage(m) THEN 1
    ELSE IF m.type = "AudioBuffer" THEN (IF r.buffer # None THEN 0 ELSE 1)
    ELSE 0

\* The tombstone onmessage leaves in the message when it installs a buffer:
\* AudioBuffer { channels: Default::default(), sample_rate: Default::default() }
TombstoneBuffer == AudioBuffer(0, 0, 0)

\* Seeded fault: the new buffer overwrites the current one, which is dropped.
onmessage_slot_Overwritten(r, m) ==
    IF m.type = "AudioBuffer" THEN TombstoneBuffer ELSE None

\* What onmessage(r, m) leaves in the message when m is an AudioBuffer: the
\* buffer the processor held (std::mem::swap), or the tombstone
\* (std::mem::replace) when it held none.
onmessage_slot(r, m) ==
    IF m.type = "AudioBuffer"
    THEN (IF r.buffer # None THEN r.buffer ELSE TombstoneBuffer)
    ELSE None

\* ------------------------------------------------------------------------
\* process: parameters
\* ------------------------------------------------------------------------

RECURSIVE exp2(_)
\* 2^n for a whole number n >= 0 (detune is a multiple of 1200 cents)
exp2(n) == IF n <= 0 THEN 1 ELSE 2 * exp2(n - 1)

\* Seeded fault: the direction of playback is lost.
computed_playback_rate_Magnitude(p) ==
    (IF p.playback_rate < 0 THEN -p.playback_rate ELSE p.playback_rate)
        * exp2(p.detune \div 1200)

\* computed_playback_rate = playback_rate * 2^(detune / 1200)
computed_playback_rate(p) == p.playback_rate * exp2(p.detune \div 1200)

\* ------------------------------------------------------------------------
\* Evaluation
\* ------------------------------------------------------------------------

\* Body(x), with x evaluated once, before Body (a LET is evaluated at every
\* use of the name it defines).
Bind(x, Body(_)) == CHOOSE y \in { Body(v) : v \in {x} } : TRUE

\* ------------------------------------------------------------------------
\* process: fast track
\* ------------------------------------------------------------------------

\* Fast track, buffer ends within this block: one iteration of the loop over
\* an output channel.  st = [index, start_index, offset, loop_point_index,
\* out, panic]; loop_point_index = -1 stands for Option::None; panic is set
\* by an index out of the channel's range.
FastTrackEndStep(b, ch, is_looping, st) ==
    LET end_index == b.length
        buffer_index == st.start_index + st.index - st.offset
    IN  IF buffer_index < end_index THEN
            [st EXCEPT !.index = @ + 1,
                       !.out = Append(@, PlayheadDen * ChannelSample(b, ch, buffer_index))]
        ELSE IF is_looping THEN
            \* loop point: restart at index 0 for the rest of the block,
            \* then read buffer_channel[0]
            IF 0 < b.length THEN
                [st EXCEPT !.index = @ + 1,
                           !.loop_point_index = st.index,
                           !.start_index = 0,
                           !.offset = st.index,
                           !.out = Append(@, PlayheadDen * ChannelSample(b, ch, 0))]
            ELSE [st EXCEPT !.panic = TRUE]
        ELSE
            [st EXCEPT !.index = @ + 1, !.out = Append(@, 0)]

RECURSIVE FastTrackEnd(_, _, _, _)
\* for (index, o) in output_channel.iter_mut().enumerate()
FastTrackEnd(b, ch, is_looping, st) ==
    IF st.index = RENDER_QUANTUM_SIZE \/ st.panic THEN st
    ELSE Bind(FastTrackEndStep(b, ch, is_looping, st),
              LAMBDA next : FastTrackEnd(b, ch, is_looping, next))

\* Seeded fault: the time before the loop point is taken instead of the
\* time after it.
LoopedBufferTime_BeforeLoopPoint(loop_point_index, buffer_duration) ==
    (loop_point_index * dt) % buffer_duration

\* buffer_time recomputed from the loop point found in the block:
\* ((RENDER_QUANTUM_SIZE - loop_point_index) / sample_rate) % buffer_duration
LoopedBufferTime(loop_point_index, buffer_duration) ==
    ((RENDER_QUANTUM_SIZE - loop_point_index) * dt) % buffer_duration

\* Seeded fault: the loop starts one frame late.
FastTrackEndInit_LateStart(buffer_time) ==
    [index |-> 0, start_index |-> RoundDiv(buffer_time, dt) + 1, offset |-> 0,
     loop_point_index |-> -1, out |-> <<>>, panic |-> FALSE]

\* The state the loop of FastTrackEnd starts from, for every channel.
FastTrackEndInit(buffer_time) ==
    [index |-> 0, start_index |-> RoundDiv(buffer_time, dt), offset |-> 0,
     loop_point_index |-> -1, out |-> <<>>, panic |-> FALSE]

\* Fast track, buffer ends within this block, from the result of the loop
\* on every channel.
FastTrackEndResult(b, buffer_time, res) ==
    LET chans == 1..b.number_of_channels
        last == res[b.number_of_channels]
        panic == \E ch \in chans : res[ch].panic
    IN  [block |-> [ch \in chans |-> res[ch].out],
         panic |-> panic,
         buffer_time |->
            IF panic THEN buffer_time
            ELSE IF last.loop_point_index # -1
            THEN LoopedBufferTime(last.loop_point_index, BufferDuration(b))
            ELSE buffer_time + block_duration]

RECURSIVE FastTrackEndChannels(_, _, _, _)
\* buffer.channels().iter().zip(output.channels_mut()).for_each(...), from
\* channel ch on: the result of the loop on each channel
FastTrackEndChannels(b, is_looping, buffer_time, ch) ==
    IF ch > b.number_of_channels THEN <<>>
    ELSE << FastTrackEnd(b, ch, is_looping, FastTrackEndInit(buffer_time)) >>
            \o FastTrackEndChannels(b, is_looping, buffer_time, ch + 1)

\* Fast track: [block, buffer_time, panic] from the buffer_time at entry.
FastTrack(b, is_looping, buffer_time) ==
    IF buffer_time + block_duration > BufferDuration(b) THEN
        \* buffer ends within this block
        Bind(FastTrackEndChannels(b, is_looping, buffer_time, 1),
             LAMBDA res : FastTrackEndResult(b, buffer_time, res))
    ELSE
        \* memcopy of buffer_channel[start_index..end_index]
        LET start_index == RoundDiv(buffer_time, dt)
            end_index == start_index + RENDER_QUANTUM_SIZE
        IN  [block |-> [ch \in 1..b.number_of_channels |->
                          [i \in 1..RENDER_QUANTUM_SIZE |->
                             PlayheadDen * ChannelSample(b, ch, start_index + i - 1)]],
             panic |-> end_index > b.length,
             buffer_time |-> buffer_time + block_duration]

\* ------------------------------------------------------------------------
\* process: slow track
\* ------------------------------------------------------------------------

\* Option<PlaybackInfo>::None
NoPlaybackInfo == [prev_frame_index |-> -1, k |-> 0]

\* Seeded fault: the loop length is subtracted once (`if` for `while`).
WrapAboveLoopEnd_Once(buffer_time, actual_loop_start, actual_loop_end) ==
    IF buffer_time >= actual_loop_end
    THEN buffer_time - (actual_loop_end - actual_loop_start)
    ELSE buffer_time

RECURSIVE WrapAboveLoopEnd(_, _, _)
\* while buffer_time >= actual_loop_end { buffer_time -= loop length }
WrapAboveLoopEnd(buffer_time, actual_loop_start, actual_loop_end) ==
    IF buffer_time >= actual_loop_end
    THEN WrapAboveLoopEnd(buffer_time - (actual_loop_end - actual_loop_start),
                          actual_loop_start, actual_loop_end)
    ELSE buffer_time

RECURSIVE WrapBelowLoopStart(_, _, _)
\* while buffer_time < actual_loop_start { buffer_time += loop length }
WrapBelowLoopStart(buffer_time, actual_loop_start, actual_loop_end) ==
    IF buffer_time < actual_loop_start
    THEN WrapBelowLoopStart(buffer_time + (actual_loop_end - actual_loop_start),
                            actual_loop_start, actual_loop_end)
    ELSE buffer_time

\* The two while loops never finish when one of them is entered with a loop
\* of length zero: the subtraction or addition leaves buffer_time unchanged.
WrapHangs(buffer_time, actual_loop_start, actual_loop_end) ==
    /\ actual_loop_end - actual_loop_start <= 0
    /\ \/ buffer_time >= actual_loop_end
       \/ buffer_time < actual_loop_start

\* Seeded fault: a sample is played up to one sample period before start time.
BeforeStartTime_OneSampleEarly(current, start_time) == current + dt < start_time

\* The three reasons to leave an output sample silent: before start time,
\* after stop time, explicit duration reached.
BeforeStartTime(current, start_time) == current < start_time

\* Seeded fault: the sample exactly at stop time is played.
AfterStopTime_Exclusive(current, stop_time) == current > stop_time

AfterStopTime(current, stop_time) == current >= stop_time

DurationReached(buffer_time_elapsed, duration) == buffer_time_elapsed >= duration

\* One iteration of `for (i, playback_info) in playback_infos` .
\* c = the values fixed for the block, st = what the loop changes:
\* [start_time, offset, started, entered_loop, buffer_time,
\*  buffer_time_elapsed, infos, hang]
SlowTrackSample(c, st, i) ==
    LET current_time == c.block_time + i * dt
        start_time == IF ~st.started /\ AlmostEqual(current_time, st.start_time)
                      THEN current_time ELSE st.start_time
        st0 == [st EXCEPT !.start_time = start_time]
    IN  IF \/ BeforeStartTime(current_time, start_time)
           \/ AfterStopTime(current_time, c.stop_time)
           \/ DurationReached(st.buffer_time_elapsed, c.duration)
        THEN [st0 EXCEPT !.infos = Append(@, NoPlaybackInfo)]
        ELSE
        LET \* we have now reached start time
            delta == current_time - start_time
            offset0 == st.offset + delta * c.rate
            offset1 == IF c.is_looping /\ c.rate >= 0 /\ offset0 >= c.actual_loop_end
                       THEN c.actual_loop_end ELSE offset0
            offset2 == IF c.is_looping /\ c.rate < 0 /\ offset1 < c.actual_loop_start
                       THEN c.actual_loop_start ELSE offset1
            offset == IF st.started THEN st.offset ELSE offset2
            bt0 == IF st.started THEN st.buffer_time ELSE offset
            elapsed0 == IF st.started THEN st.buffer_time_elapsed ELSE delta * c.rate
            \* loop entry
            entered == IF ~c.is_looping THEN st.entered_loop
                       ELSE IF st.entered_loop THEN TRUE
                       ELSE \/ offset < c.actual_loop_end /\ bt0 >= c.actual_loop_start
                            \/ offset >= c.actual_loop_end /\ bt0 < c.actual_loop_end
            wraps == c.is_looping /\ entered
            hang == wraps /\ WrapHangs(bt0, c.actual_loop_start, c.actual_loop_end)
            bt1 == IF wraps /\ ~hang
                   THEN WrapBelowLoopStart(
                            WrapAboveLoopEnd(bt0, c.actual_loop_start, c.actual_loop_end),
                            c.actual_loop_start, c.actual_loop_end)
                   ELSE bt0
            playhead == bt1 * c.buffer.sample_rate
            prev_frame_index == playhead \div PlayheadDen
            k == playhead % PlayheadDen
            info == IF bt1 >= 0 /\ bt1 < c.buffer_duration
                       /\ prev_frame_index < c.buffer.length
                    THEN [prev_frame_index |-> prev_frame_index, k |-> k]
                    ELSE NoPlaybackInfo
            time_incr == dt * c.rate
        IN  IF hang THEN [st0 EXCEPT !.hang = TRUE]
            ELSE [start_time |-> start_time, offset |-> offset, started |-> TRUE,
                  entered_loop |-> entered, buffer_time |-> bt1 + time_incr,
                  buffer_time_elapsed |-> elapsed0 + time_incr,
                  infos |-> Append(st.infos, info), hang |-> FALSE]

RECURSIVE SlowTrackPositions(_, _, _)
\* compute position for each sample
SlowTrackPositions(c, st, i) ==
    IF i = RENDER_QUANTUM_SIZE \/ st.hang THEN st
    ELSE Bind(SlowTrackSample(c, st, i),
              LAMBDA next : SlowTrackPositions(c, next, i + 1))

\* Index of the sample taken as `next_sample` at the end of the buffer while
\* looping: the first frame at or after loop start (forward), the frame at
\* loop end (reverse).  Both are computed with the context's sample rate.
LoopNextIndex(c) ==
    IF c.playback_rate >= 0
    THEN IF c.actual_loop_start % dt = 0
         THEN c.actual_loop_start \div dt
         ELSE (c.actual_loop_start \div dt) + 1
    ELSE c.actual_loop_end \div dt

\* The buffer indices one output sample reads besides prev_frame_index
\* and prev_frame_index + 1 (which is read through `get`).
SlowTrackExtraReads(c, info) ==
    IF info = NoPlaybackInfo \/ info.prev_frame_index + 1 < c.buffer.length THEN {}
    ELSE IF c.is_looping THEN {LoopNextIndex(c)}
    ELSE IF AlmostEqual(info.k, PlayheadDen) \/ info.prev_frame_index = 0 THEN {}
    ELSE {info.prev_frame_index - 1}

\* fill output according to computed positions: one sample of one channel
SlowTrackOutput(c, ch, info) ==
    IF info = NoPlaybackInfo THEN 0
    ELSE
    LET prev_sample == ChannelSample(c.buffer, ch, info.prev_frame_index)
        next_sample ==
            IF info.prev_frame_index + 1 < c.buffer.length
            THEN ChannelSample(c.buffer, ch, info.prev_frame_index + 1)
            ELSE IF c.is_looping
            THEN ChannelSample(c.buffer, ch, LoopNextIndex(c))
            ELSE IF AlmostEqual(info.k, PlayheadDen) \/ info.prev_frame_index = 0
            THEN 0
            ELSE 2 * prev_sample - ChannelSample(c.buffer, ch, info.prev_frame_index - 1)
    IN  (PlayheadDen - info.k) * prev_sample + info.k * next_sample

\* Seeded fault: the loop bounds are used as they are, valid or not.
SlowTrackContext_NoFallback(r, p, block_time) ==
    LET ls == r.loop_state
    IN  [block_time |-> block_time, stop_time |-> r.stop_time,
         duration |-> r.duration, rate |-> computed_playback_rate(p),
         playback_rate |-> p.playback_rate,
         is_looping |-> ls.is_looping, buffer |-> r.buffer,
         buffer_duration |-> BufferDuration(r.buffer),
         actual_loop_start |-> IF ls.is_looping THEN ls.start ELSE 0,
         actual_loop_end |-> IF ls.is_looping THEN ls.end ELSE 0]

\* The values the slow track fixes for the block: the effective loop bounds,
\* the parameters and the scheduling.
SlowTrackContext(r, p, block_time) ==
    LET ls == r.loop_state
        valid == Ge(ls.start, 0) /\ Gt(ls.end, 0) /\ Lt(ls.start, ls.end)
    IN  [block_time |-> block_time, stop_time |-> r.stop_time,
         duration |-> r.duration, rate |-> computed_playback_rate(p),
         playback_rate |-> p.playback_rate,
         is_looping |-> ls.is_looping, buffer |-> r.buffer,
         buffer_duration |-> BufferDuration(r.buffer),
         actual_loop_start |-> IF ls.is_looping /\ valid THEN ls.start ELSE 0,
         actual_loop_end |-> IF ls.is_looping
                             THEN (IF valid THEN ls.end ELSE BufferDuration(r.buffer))
                             ELSE 0]

\* What the loop over the samples starts from; entered_loop is cleared when
\* the source is not looping.
SlowTrackInit(r, start_time, buffer_time) ==
    [start_time |-> start_time, offset |-> r.offset,
     started |-> r.render_state.started,
     entered_loop |-> IF r.loop_state.is_looping THEN r.render_state.entered_loop
                      ELSE FALSE,
     buffer_time |-> buffer_time,
     buffer_time_elapsed |-> r.render_state.buffer_time_elapsed,
     infos |-> <<>>, hang |-> FALSE]

\* The slow track's result, from the positions computed: the output is
\* filled for every channel; a read out of the channel's range panics.
SlowTrackResult(r, c, st) ==
    LET chans == 1..c.buffer.number_of_channels
        panic == /\ ~st.hang
                 /\ \E i \in 1..Len(st.infos) :
                       \E x \in SlowTrackExtraReads(c, st.infos[i]) :
                          x < 0 \/ x >= c.buffer.length
    IN  [r |-> [r EXCEPT !.start_time = st.start_time,
                         !.offset = st.offset,
                         !.render_state.started = st.started,
                         !.render_state.entered_loop = st.entered_loop,
                         !.render_state.buffer_time_elapsed = st.buffer_time_elapsed],
         buffer_time |-> st.buffer_time,
         fault |-> IF st.hang THEN "hang" ELSE IF panic THEN "panic" ELSE "none",
         block |-> IF st.hang \/ panic THEN SilentBlock
                   ELSE [ch \in chans |->
                           [i \in 1..RENDER_QUANTUM_SIZE |->
                              SlowTrackOutput(c, ch, st.infos[i])]]]

\* The slow track of one block: [r, block, buffer_time, fault]
SlowTrack(r, p, block_time, start_time, buffer_time) ==
    Bind(SlowTrackContext(r, p, block_time),
         LAMBDA c :
            Bind(SlowTrackPositions(c, SlowTrackInit(r, start_time, buffer_time), 0),
                 LAMBDA st : SlowTrackResult(r, c, st)))

\* ------------------------------------------------------------------------
\* process
\* ------------------------------------------------------------------------

\* Seeded fault: a stop time within the block does not force the slow track.
IsAligned_IgnoringStopTime(r, p, block_time, start_time, buffer_time) ==
    LET buffer_duration == BufferDuration(r.buffer)
        a0 == IF start_time = block_time /\ r.offset = 0
              THEN TRUE ELSE r.render_state.is_aligned
        a1 == IF r.buffer.sample_rate # sample_rate \/ computed_playback_rate(p) # 1
              THEN FALSE ELSE a0
        a2 == IF r.loop_state.start # 0 \/ r.loop_state.end # buffer_duration
              THEN FALSE ELSE a1
        a3 == IF buffer_time + block_duration > r.duration
              THEN FALSE ELSE a2
    IN  a3

\* Seeded fault: the fast track is taken again as soon as its conditions
\* hold again.
IsAligned_Again(r, p, block_time, start_time, buffer_time) ==
    LET buffer_duration == BufferDuration(r.buffer)
        a0 == IF r.offset = 0 THEN TRUE ELSE r.render_state.is_aligned
        a1 == IF r.buffer.sample_rate # sample_rate \/ computed_playback_rate(p) # 1
              THEN FALSE ELSE a0
        a2 == IF r.loop_state.start # 0 \/ r.loop_state.end # buffer_duration
              THEN FALSE ELSE a1
        a3 == IF \/ buffer_time + block_duration > r.duration
                 \/ block_time + block_duration > r.stop_time
              THEN FALSE ELSE a2
    IN  a3

\* The fast-track test of one block: the value of render_state.is_aligned
\* after the four `if`s that set and clear it.
IsAligned(r, p, block_time, start_time, buffer_time) ==
    LET buffer_duration == BufferDuration(r.buffer)
        a0 == IF start_time = block_time /\ r.offset = 0
              THEN TRUE ELSE r.render_state.is_aligned
        a1 == IF r.buffer.sample_rate # sample_rate \/ computed_playback_rate(p) # 1
              THEN FALSE ELSE a0
        a2 == IF r.loop_state.start # 0 \/ r.loop_state.end # buffer_duration
              THEN FALSE ELSE a1
        a3 == IF \/ buffer_time + block_duration > r.duration
                 \/ block_time + block_duration > r.stop_time
              THEN FALSE ELSE a2
    IN  a3

\* Seeded fault: the end of the buffer does not end the source.
EndReached_StopOrDuration(r, p, next_block_time, buffer_time) ==
    \/ next_block_time >= r.stop_time
    \/ DurationReached(r.render_state.buffer_time_elapsed, r.duration)

\* Seeded fault: the end of the buffer is only looked for in forward play.
EndReached_ForwardOnly(r, p, next_block_time, buffer_time) ==
    \/ next_block_time >= r.stop_time
    \/ DurationReached(r.render_state.buffer_time_elapsed, r.duration)
    \/ /\ ~r.loop_state.is_looping
       /\ computed_playback_rate(p) > 0 /\ buffer_time >= BufferDuration(r.buffer)

\* The end-of-block test: stop time reached, duration reached, or end of the
\* buffer reached while not looping.
EndReached(r, p, next_block_time, buffer_time) ==
    \/ next_block_time >= r.stop_time
    \/ DurationReached(r.render_state.buffer_time_elapsed, r.duration)
    \/ /\ ~r.loop_state.is_looping
       /\ \/ computed_playback_rate(p) > 0 /\ buffer_time >= BufferDuration(r.buffer)
          \/ computed_playback_rate(p) < 0 /\ buffer_time < 0

\* Seeded fault: the early exit is skipped for a looping source.
AlreadyEnded_UnlessLooping(r) == r.render_state.ended /\ ~r.loop_state.is_looping

\* The first early exit: `if self.render_state.ended`
AlreadyEnded(r) == r.render_state.ended

\* Seeded fault: an early exit stores a playhead of 0.
EarlyReturn_StoresPlayhead(r, ret) ==
    [r |-> [r EXCEPT !.render_state.buffer_time = 0], block |-> SilentBlock,
     ret |-> ret, event |-> FALSE, fault |-> "none", track |-> "none",
     stores |-> <<>>]

\* Seeded fault: a source whose start time is reached without a buffer ends.
EarlyReturn_EndsWithoutBuffer(r, ret) ==
    IF ~r.render_state.ended /\ r.start_time # F64_MAX /\ r.buffer = None /\ ~ret
    THEN [r |-> [r EXCEPT !.render_state.ended = TRUE], block |-> SilentBlock,
          ret |-> ret, event |-> TRUE, fault |-> "none", track |-> "none",
          stores |-> <<>>]
    ELSE [r |-> r, block |-> SilentBlock, ret |-> ret, event |-> FALSE,
          fault |-> "none", track |-> "none", stores |-> <<>>]

\* A block that returns before rendering: silence, state unchanged.
EarlyReturn(r, ret) ==
    [r |-> r, block |-> SilentBlock, ret |-> ret, event |-> FALSE,
     fault |-> "none", track |-> "none", stores |-> <<>>]

\* The track taken for the block: [r, block, buffer_time, fault, track].
\* r1 is the renderer after start-time normalization and the fast-track test.
RenderTrack(r1, p, block_time, buffer_time) ==
    IF r1.render_state.is_aligned
    THEN Bind(FastTrack(r1.buffer, r1.loop_state.is_looping, buffer_time),
              LAMBDA fast :
                 [r |-> [r1 EXCEPT !.render_state.started =
                                       IF r1.start_time = block_time THEN TRUE ELSE @,
                                   !.render_state.buffer_time_elapsed =
                                       @ + block_duration],
                  block |-> fast.block, buffer_time |-> fast.buffer_time,
                  fault |-> IF fast.panic THEN "panic" ELSE "none",
                  track |-> "fast"])
    ELSE Bind(SlowTrack(r1, p, block_time, r1.start_time, buffer_time),
              LAMBDA slow :
                 [r |-> slow.r, block |-> slow.block, buffer_time |-> slow.buffer_time,
                  fault |-> slow.fault, track |-> "slow"])

\* Seeded fault: the playhead is stored inside the sample loop as well, so
\* that the value before the last sample of the block can be read.
FinishBlock_StoresPerSample(r0, t, p, next_block_time) ==
    IF t.fault # "none"
    THEN [r |-> r0, block |-> SilentBlock, ret |-> FALSE, event |-> FALSE,
          fault |-> t.fault, track |-> t.track, stores |-> <<>>]
    ELSE LET r3 == [t.r EXCEPT !.render_state.buffer_time = t.buffer_time]
             end == EndReached(r3, p, next_block_time, t.buffer_time)
         IN  [r |-> [r3 EXCEPT !.render_state.ended = IF end THEN TRUE ELSE @],
              block |-> t.block, ret |-> TRUE, event |-> end, fault |-> "none",
              track |-> t.track,
              stores |-> << t.buffer_time - dt * computed_playback_rate(p),
                            t.buffer_time >>]

\* Seeded fault: the block that ends the node already returns false.
FinishBlock_FalseWhenEnding(r0, t, p, next_block_time) ==
    IF t.fault # "none"
    THEN [r |-> r0, block |-> SilentBlock, ret |-> FALSE, event |-> FALSE,
          fault |-> t.fault, track |-> t.track, stores |-> <<>>]
    ELSE LET r3 == [t.r EXCEPT !.render_state.buffer_time = t.buffer_time]
             end == EndReached(r3, p, next_block_time, t.buffer_time)
         IN  [r |-> [r3 EXCEPT !.render_state.ended = IF end THEN TRUE ELSE @],
              block |-> t.block, ret |-> ~end, event |-> end, fault |-> "none",
              track |-> t.track, stores |-> << t.buffer_time >>]

\* End-of-block bookkeeping: buffer_time is stored, and the node ends when
\* the end is reached.  A block that panicked or hangs leaves no result.
FinishBlock(r0, t, p, next_block_time) ==
    IF t.fault # "none"
    THEN [r |-> r0, block |-> SilentBlock, ret |-> FALSE, event |-> FALSE,
          fault |-> t.fault, track |-> t.track, stores |-> <<>>]
    ELSE LET r3 == [t.r EXCEPT !.render_state.buffer_time = t.buffer_time]
             end == EndReached(r3, p, next_block_time, t.buffer_time)
         IN  [r |-> [r3 EXCEPT !.render_state.ended = IF end THEN TRUE ELSE @],
              block |-> t.block, ret |-> TRUE, event |-> end, fault |-> "none",
              track |-> t.track, stores |-> << t.buffer_time >>]

\* Seeded fault: a start time in the past is kept.
NormalizedStartTime_InThePast(r, block_time) == r.start_time

\* prevent scheduling in the past: a start_time earlier than the block's
\* time becomes the block's time, until playback has started.
NormalizedStartTime(r, block_time) ==
    IF ~r.render_state.started /\ r.start_time < block_time
    THEN block_time ELSE r.start_time

\* process(inputs, outputs, params, scope) with scope.current_time = block_time.
\* [r: the renderer afterwards, block: outputs[0], ret: the value returned,
\*  event: send_ended_event was called, fault: "none", or "panic" (a buffer
\*  index out of range) or "hang" (a while loop that never ends),
\*  track: which track rendered the block,
\*  stores: the values stored in render_state.buffer_time, in order]
process(r, p, block_time) ==
    LET next_block_time == block_time + block_duration
    IN  IF AlreadyEnded(r) THEN EarlyReturn(r, FALSE)
        ELSE IF r.start_time >= next_block_time
        THEN EarlyReturn(r, r.start_time # F64_MAX)
        ELSE IF r.buffer = None THEN EarlyReturn(r, FALSE)
        ELSE
        LET buffer_time == r.render_state.buffer_time
            start_time == NormalizedStartTime(r, block_time)
            is_aligned == IsAligned(r, p, block_time, start_time, buffer_time)
        IN  Bind([r EXCEPT !.start_time = start_time,
                           !.render_state.is_aligned = is_aligned],
                 LAMBDA r1 :
                    Bind(RenderTrack(r1, p, block_time, buffer_time),
                         LAMBDA t : FinishBlock(r, t, p, next_block_time)))

\* Seeded fault: before_drop emits the event and leaves ended unset.
before_drop_EventOnly(r, current_time) ==
    IF ~r.render_state.ended /\ current_time >= r.start_time
    THEN [r |-> r, event |-> TRUE]
    ELSE [r |-> r, event |-> FALSE]

\* Seeded fault: before_drop does not look at the start time.
before_drop_IgnoringStartTime(r, current_time) ==
    IF ~r.render_state.ended
    THEN [r |-> [r EXCEPT !.render_state.ended = TRUE], event |-> TRUE]
    ELSE [r |-> r, event |-> FALSE]

\* Seeded fault: before_drop does not look at render_state.ended.
before_drop_IgnoringEnded(r, current_time) ==
    IF current_time >= r.start_time
    THEN [r |-> [r EXCEPT !.render_state.ended = TRUE], event |-> TRUE]
    ELSE [r |-> r, event |-> FALSE]

\* before_drop(scope)
before_drop(r, current_time) ==
    IF ~r.render_state.ended /\ current_time >= r.start_time
    THEN [r |-> [r EXCEPT !.render_state.ended = TRUE], event |-> TRUE]
    ELSE [r |-> r, event |-> FALSE]

\* ------------------------------------------------------------------------
\* Control side: AudioBufferSourceNode
\* ------------------------------------------------------------------------

\* The result of a call on the handle: the handle afterwards, the messages
\* it posted, and whether the call panicked.
Returned(n, post) == [node |-> n, post |-> post, panic |-> FALSE]
Panicked(n) == [node |-> n, post |-> <<>>, panic |-> TRUE]

\* Seeded fault: start_stop_count is incremented before the assertions.
start_at_with_offset_and_duration_CountFirst(n, start, offset, duration) ==
    LET n1 == [n EXCEPT !.start_stop_count = @ + 1]
    IN  IF ~(IsValidTimeValue(start) /\ IsValidTimeValue(offset) /\ IsValidTimeValue(duration))
        THEN Panicked(n1)
        ELSE IF n.start_stop_count # 0 THEN Panicked(n1)
        ELSE Returned(n1, << StartWithOffsetAndDuration(start, offset, duration) >>)

\* start_at_with_offset_and_duration
start_at_with_offset_and_duration(n, start, offset, duration) ==
    IF ~(IsValidTimeValue(start) /\ IsValidTimeValue(offset) /\ IsValidTimeValue(duration))
    THEN Panicked(n)
    ELSE IF n.start_stop_count # 0 THEN Panicked(n)
    ELSE Returned([n EXCEPT !.start_stop_count = @ + 1],
                  << StartWithOffsetAndDuration(start, offset, duration) >>)

\* Seeded fault: stop_at does not assert that the source was started.
stop_at_Unchecked(n, when) ==
    IF ~IsValidTimeValue(when) THEN Panicked(n)
    ELSE Returned([n EXCEPT !.start_stop_count = @ + 1], << Stop(when) >>)

\* stop_at
stop_at(n, when) ==
    IF ~IsValidTimeValue(when) THEN Panicked(n)
    ELSE IF n.start_stop_count # 1 THEN Panicked(n)
    ELSE Returned([n EXCEPT !.start_stop_count = @ + 1], << Stop(when) >>)

\* Seeded fault: set_buffer does not assert that no buffer was given.
set_buffer_Unchecked(n, audio_buffer) ==
    Returned([n EXCEPT !.buffer = audio_buffer], << SetBuffer(audio_buffer) >>)

\* set_buffer
set_buffer(n, audio_buffer) ==
    IF n.buffer # None THEN Panicked(n)
    ELSE Returned([n EXCEPT !.buffer = audio_buffer], << SetBuffer(audio_buffer) >>)

\* set_loop
set_loop(n, value) ==
    Returned([n EXCEPT !.loop_state.is_looping = value], << Loop(value) >>)

\* set_loop_start
set_loop_start(n, value) ==
    Returned([n EXCEPT !.loop_state.start = value], << LoopStart(value) >>)

\* set_loop_end
set_loop_end(n, value) ==
    Returned([n EXCEPT !.loop_state.end = value], << LoopEnd(value) >>)

\* AudioBufferSourceOptions
AudioBufferSourceOptions(buffer, detune, loop_, loop_start, loop_end, playback_rate) ==
    [buffer |-> buffer, detune |-> detune, loop_ |-> loop_,
     loop_start |-> loop_start, loop_end |-> loop_end,
     playback_rate |-> playback_rate]

\* The handle built by AudioBufferSourceNode::new, before options.buffer is set
NewNode(options) ==
    [buffer |-> None,
     loop_state |-> [is_looping |-> options.loop_, start |-> options.loop_start,
                     end |-> options.loop_end],
     start_stop_count |-> 0]

\* AudioContext::new and OfflineAudioContext::new: frames_played is 0, the
\* next node id is 1, and the output stream of an AudioContext plays
\* (state() is Running).
NewAudioContext ==
    [frames_played |-> 0, node_id_inc |-> 1, stream |-> "playing", state |-> "Running"]

\* The id of the destination node: AudioNodeId(0)
DestinationId == 0

\* Seeded fault: the counter is read and not advanced.
fetch_add_LoadOnly(c) == [id |-> c.node_id_inc, context |-> c]

\* self.node_id_inc.fetch_add(1, Ordering::SeqCst): one atomic step that
\* returns the counter and advances it.
fetch_add(c) == [id |-> c.node_id_inc, context |-> [c EXCEPT !.node_id_inc = @ + 1]]

\* BaseAudioContext::register on a new context: the node takes the next
\* id, the closure builds the handle and its renderer, and the renderer is
\* sent to the render thread.
register(options) ==
    LET n0 == NewNode(options)
    IN  Returned(n0, << RegisterNode(fetch_add(NewAudioContext).id,
                                      NewRenderer(n0.loop_state)) >>)

\* Seeded fault: options.buffer is set before the renderer is sent.
new_BufferBeforeRegister(options) ==
    LET reg == register(options)
        res == IF options.buffer # None THEN set_buffer(reg.node, options.buffer)
               ELSE Returned(reg.node, <<>>)
    IN  Returned(res.node, res.post \o reg.post)

\* AudioBufferSourceNode::new: the node is registered, and then
\* options.buffer, if any, is set on the handle.
new(options) ==
    LET reg == register(options)
        res == IF options.buffer # None THEN set_buffer(reg.node, options.buffer)
               ELSE Returned(reg.node, <<>>)
    IN  Returned(res.node, reg.post \o res.post)

\* AudioBufferSourceNode::position, given the processor that shares the
\* atomic with the handle (the atomic is created as 0 with the node).
position(r) == IF r = None THEN 0 ELSE r.render_state.buffer_time

\* Seeded fault: suspend marks the context suspended and leaves the stream
\* playing.
suspend_StreamLeftPlaying(c) == [c EXCEPT !.state = "Suspended"]

\* AudioContext::suspend: the stream is paused.
suspend(c) == [c EXCEPT !.stream = "paused", !.state = "Suspended"]

\* AudioContext::resume: the stream plays again.
resume(c) == [c EXCEPT !.stream = "playing", !.state = "Running"]

\* AudioContext::close: the stream is released.
close(c) == [c EXCEPT !.stream = "closed", !.state = "Closed"]

\* BaseAudioContext::current_time: frames_played / sample_rate
BaseAudioContext_current_time(c) == c.frames_played * dt

\* ------------------------------------------------------------------------
\* State
\* ------------------------------------------------------------------------

VARIABLES
    node,       \* the control-side handle AudioBufferSourceNode
    control,    \* the caller: "alive", "panicked" (a rejected call terminated
                \* it), "dropped" (handle dropped), "finalized" (before_drop ran)
    loop_calls, \* number of loop setter calls made on the handle
    posted,     \* history: the scheduling messages posted, in order, and the
                \* numbers of AudioBuffer messages and of messages of
                \* another type posted
    channel,    \* messages posted to the processor and not yet applied (FIFO)
    renderer,   \* the render-side AudioBufferSourceRenderer
    params,     \* k-rate values of playback_rate and detune
    frames,     \* number of blocks rendered; scope.current_time = frames * block_duration
    rendered,   \* history: per processed block, outputs[0], the value returned,
                \* the track taken, the loop_state and start_time at its entry,
                \* and the values it stored in render_state.buffer_time
    events,     \* number of calls of scope.send_ended_event()
    clamps,     \* number of calls of clamp_loop_boundaries
    thread,     \* the render thread: "running", "panicked" or "hung"
    context,    \* the AudioContext: its frames_played and node_id_inc
                \* counters and its stream
    slot,       \* the AudioBuffer message handled last, as onmessage left it
    callers,    \* the control threads that call register: where each is in
                \* the call, the id it holds and the ids it was returned
    offline     \* the OfflineAudioContext, if the context is one: its length,
                \* where start_rendering is, the chunks of its buffer handed
                \* to the render thread so far, and the length of the slice
                \* returned

vars == << node, control, loop_calls, posted, channel, renderer, params,
           frames, rendered, events, clamps, thread, context, slot, callers, offline >>

\* scope.current_time
current_time == frames * block_duration

\* What a call on the handle leaves behind: the caller terminates when the
\* call panicked, and the messages are appended to the channel.
Called(res) ==
    /\ node' = res.node
    /\ channel' = channel \o res.post
    /\ control' = IF res.panic THEN "panicked" ELSE control
    /\ posted' = [sched |-> posted.sched \o
                       SelectSeq([i \in 1..Len(res.post) |-> res.post[i].type],
                                 LAMBDA t : t \in {"StartWithOffsetAndDuration", "Stop"}),
                  buffers |-> posted.buffers +
                       Len(SelectSeq(res.post, LAMBDA m : m.type = "AudioBuffer")),
                  others |-> posted.others +
                       Len(SelectSeq(res.post, LAMBDA m : m.type = "Other"))]

\* AudioBufferSourceNode::new(context, options): both halves are built, the
\* renderer is registered, and options.buffer, if any, is set on the handle.
InitWith(OptionSet) ==
    \E options \in OptionSet :
        LET n0 == NewNode(options)
            res == IF options.buffer # None THEN set_buffer(n0, options.buffer)
                   ELSE Returned(n0, <<>>)
        IN  /\ node = res.node
            /\ control = "alive"
            /\ loop_calls = 0
            /\ posted = [sched |-> <<>>, buffers |-> Len(res.post), others |-> 0]
            /\ channel = res.post
            /\ renderer = NewRenderer(n0.loop_state)
            /\ params = [playback_rate |-> options.playback_rate,
                         detune |-> options.detune]
            /\ frames = 0
            /\ rendered = <<>>
            /\ events = 0
            /\ clamps = 0
            /\ thread = "running"
            /\ context = fetch_add(NewAudioContext).context
            /\ slot = None
            /\ callers = <<>>
            /\ offline = None

\* ------------------------------------------------------------------------
\* Actions of the control thread
\* ------------------------------------------------------------------------

RenderSideUnchanged ==
    UNCHANGED << renderer, params, frames, rendered, events, clamps, thread,
                 context, slot, callers, offline >>

\* start(), start_at(when), start_at_with_offset(when, offset) and
\* start_at_with_offset_and_duration(when, offset, duration); start() passes
\* the context's current_time.
StartAt(Whens, Offsets, Durations) ==
    /\ control = "alive"
    /\ \E when \in Whens \cup {current_time}, offset \in Offsets, duration \in Durations :
          LET res == start_at_with_offset_and_duration(node, when, offset, duration)
          IN  ~res.panic /\ Called(res)
    /\ UNCHANGED loop_calls
    /\ RenderSideUnchanged

\* stop() and stop_at(when)
StopAt(Whens) ==
    /\ control = "alive"
    /\ \E when \in Whens \cup {current_time} :
          LET res == stop_at(node, when)
          IN  ~res.panic /\ Called(res)
    /\ UNCHANGED loop_calls
    /\ RenderSideUnchanged

\* set_buffer(audio_buffer)
SetBufferCall(Buffers) ==
    /\ control = "alive"
    /\ \E b \in Buffers :
          LET res == set_buffer(node, b)
          IN  ~res.panic /\ Called(res)
    /\ UNCHANGED loop_calls
    /\ RenderSideUnchanged

\* An AudioBuffer message sent to the processor without going through
\* set_buffer, so that it can reach a processor that holds a buffer: the case
\* onmessage swaps for.  The handle is left as it is.
DeliverBuffer(Buffers) ==
    /\ control = "alive"
    /\ posted.buffers < MaxBufferMessages
    /\ \E b \in Buffers : Called(Returned(node, << SetBuffer(b) >>))
    /\ UNCHANGED loop_calls
    /\ RenderSideUnchanged

\* A message of another type sent to the processor: the handle posts none,
\* the graph delivers whatever it is given.  The handle is left as it is.
DeliverOther ==
    /\ control = "alive"
    /\ posted.others < MaxOtherMessages
    /\ Called(Returned(node, << OtherMessage >>))
    /\ UNCHANGED loop_calls
    /\ RenderSideUnchanged

\* set_loop(value)
SetLoop ==
    /\ control = "alive"
    /\ loop_calls < MaxLoopCalls
    /\ \E value \in BOOLEAN : Called(set_loop(node, value))
    /\ loop_calls' = loop_calls + 1
    /\ RenderSideUnchanged

\* set_loop_start(value)
SetLoopStart(Points) ==
    /\ control = "alive"
    /\ loop_calls < MaxLoopCalls
    /\ \E value \in Points : Called(set_loop_start(node, value))
    /\ loop_calls' = loop_calls + 1
    /\ RenderSideUnchanged

\* set_loop_end(value)
SetLoopEnd(Points) ==
    /\ control = "alive"
    /\ loop_calls < MaxLoopCalls
    /\ \E value \in Points : Called(set_loop_end(node, value))
    /\ loop_calls' = loop_calls + 1
    /\ RenderSideUnchanged

\* A call that is a programmer error: a second start, a stop before start or
\* a second stop, a second set_buffer, a negative or non-finite time value.
RejectedCall(Whens, Buffers) ==
    /\ control = "alive"
    /\ \E when \in Whens, b \in Buffers :
          \E res \in { start_at_with_offset_and_duration(node, when, 0, F64_MAX),
                       start_at_with_offset_and_duration(node, 0, when, F64_MAX),
                       start_at_with_offset_and_duration(node, 0, 0, when),
                       stop_at(node, when),
                       set_buffer(node, b) } :
             res.panic /\ Called(res)
    /\ UNCHANGED loop_calls
    /\ RenderSideUnchanged

\* The handle is dropped.
DropHandle ==
    /\ control = "alive"
    /\ control' = "dropped"
    /\ UNCHANGED << node, loop_calls, posted, channel >>
    /\ RenderSideUnchanged

\* What a call on the context leaves alone: the node and the render side.
ContextCallOnly ==
    UNCHANGED << node, control, loop_calls, posted, channel, renderer, params,
                 frames, rendered, events, clamps, thread, slot, callers, offline >>

\* context.suspend() on a running context
Suspend ==
    /\ context.state = "Running"
    /\ context' = suspend(context)
    /\ ContextCallOnly

\* context.resume() on a suspended context
Resume ==
    /\ context.state = "Suspended"
    /\ context' = resume(context)
    /\ ContextCallOnly

\* context.close() on a running or suspended context
Close ==
    /\ context.state # "Closed"
    /\ context' = close(context)
    /\ ContextCallOnly

\* ------------------------------------------------------------------------
\* Actions of the render thread
\* ------------------------------------------------------------------------

\* The render thread applies the oldest pending message (onmessage).
OnMessage ==
    /\ thread = "running"
    /\ context.stream = "playing"
    /\ channel # <<>>
    /\ renderer' = onmessage(renderer, Head(channel))
    /\ clamps' = clamps + ClampCalls(renderer, Head(channel))
    /\ slot' = IF Head(channel).type = "AudioBuffer"
               THEN onmessage_slot(renderer, Head(channel)) ELSE slot
    /\ channel' = Tail(channel)
    /\ UNCHANGED << node, control, loop_calls, posted, params, frames, rendered,
                    events, thread, context, callers, offline >>

\* The render thread, all pending messages applied, renders one block
\* (process) and advances the clock by one block.
Process ==
    /\ thread = "running"
    /\ context.stream = "playing"
    /\ channel = <<>>
    /\ frames < MaxBlocks
    /\ \E res \in { process(renderer, params, current_time) } :
           IF res.fault = "none"
           THEN /\ renderer' = res.r
                /\ rendered' = Append(rendered,
                        [block |-> res.block, ret |-> res.ret, track |-> res.track,
                         looping |-> renderer.loop_state.is_looping,
                         loop_start |-> renderer.loop_state.start,
                         loop_end |-> renderer.loop_state.end,
                         start_time |-> renderer.start_time,
                         stores |-> res.stores])
                /\ events' = events + (IF res.event THEN 1 ELSE 0)
                /\ frames' = frames + 1
                /\ UNCHANGED thread
           ELSE /\ thread' = IF res.fault = "panic" THEN "panicked" ELSE "hung"
                /\ UNCHANGED << renderer, rendered, events, frames >>
    /\ UNCHANGED << node, control, loop_calls, posted, channel, params, clamps,
                    context, slot, callers, offline >>

\* The render thread learns that the handle was dropped (before_drop).
BeforeDrop ==
    /\ thread = "running"
    /\ context.stream = "playing"
    /\ control = "dropped"
    /\ channel = <<>>
    /\ \E res \in { before_drop(renderer, current_time) } :
           /\ renderer' = res.r
           /\ events' = events + (IF res.event THEN 1 ELSE 0)
    /\ control' = "finalized"
    /\ UNCHANGED << node, loop_calls, posted, channel, params, frames, rendered,
                    clamps, thread, context, slot, callers, offline >>

\* ------------------------------------------------------------------------
\* Inputs and specifications
\* ------------------------------------------------------------------------

\* Mono buffers at the context's rate, of every length up to MaxLen.
PlainBuffers == { AudioBuffer(len, sample_rate, 1) : len \in 0..MaxLen }

\* A stereo buffer at the context's rate.
StereoBuffer == AudioBuffer(RENDER_QUANTUM_SIZE - 1, sample_rate, 2)

DefaultOptions == AudioBufferSourceOptions(None, 0, FALSE, 0, 0, 1)

\* The engine as a whole: every operation, a few inputs of every kind.
Init ==
    InitWith({ AudioBufferSourceOptions(None, 0, l, 0, 0, pr) :
                 l \in BOOLEAN, pr \in {-1, 1} })

Next ==
    \/ StartAt({0, dt + 1, block_duration}, {0, dt + 1}, {3 * dt, F64_MAX})
    \/ StopAt({dt + 1, block_duration})
    \/ SetBufferCall({ AudioBuffer(0, sample_rate, 1), AudioBuffer(2, sample_rate, 1),
                       StereoBuffer, AudioBuffer(MaxLen, sample_rate, 1),
                       AudioBuffer(2, 2 * sample_rate, 1) })
    \/ SetLoop
    \/ SetLoopStart({dt + 1})
    \/ SetLoopEnd({2 * dt})
    \/ DropHandle
    \/ OnMessage
    \/ Process
    \/ BeforeDrop

Spec == Init /\ [][Next]_vars

\* Scheduling: start and stop on and between samples, with and without
\* offset and duration, forward and reverse, looping or not (by the options),
\* on empty, short, long, stereo and resampled buffers.
NextSchedule ==
    \/ StartAt({0, dt + 1, block_duration}, {0, dt + 1}, {3 * dt, F64_MAX})
    \/ StopAt({dt + 1, block_duration})
    \/ SetBufferCall({ AudioBuffer(0, sample_rate, 1), AudioBuffer(2, sample_rate, 1),
                       StereoBuffer, AudioBuffer(MaxLen, sample_rate, 1),
                       AudioBuffer(2, 2 * sample_rate, 1) })
    \/ OnMessage
    \/ Process

SpecSchedule == Init /\ [][NextSchedule]_vars

\* Messages: every kind of message the handle can post, applied at any
\* point of the rendering.
NextMessages ==
    \/ StartAt({dt + 1}, {0}, {3 * dt, F64_MAX})
    \/ StopAt({dt + 1})
    \/ SetBufferCall({ StereoBuffer, AudioBuffer(MaxLen, sample_rate, 1) })
    \/ SetLoop
    \/ SetLoopStart({dt + 1})
    \/ SetLoopEnd({2 * dt})
    \/ OnMessage
    \/ Process

SpecMessages == Init /\ [][NextMessages]_vars

\* Lifetime: the source is scheduled, rendered, and its handle dropped at
\* any point.
NextLifetime ==
    \/ StartAt({0, dt + 1}, {0}, {3 * dt, F64_MAX})
    \/ StopAt({dt + 1})
    \/ SetBufferCall({ AudioBuffer(0, sample_rate, 1), AudioBuffer(2, sample_rate, 1),
                       AudioBuffer(MaxLen, sample_rate, 1) })
    \/ SetLoop
    \/ DropHandle
    \/ OnMessage
    \/ Process
    \/ BeforeDrop

SpecLifetime == Init /\ [][NextLifetime]_vars

\* Plain playback: a mono buffer at the context's rate, not looping, rate 1,
\* detune 0, offset 0, no stop, no duration; start on any sample of the
\* first block and of the beginning of the second; the buffer is set before
\* or after start.
InitPlain == InitWith({DefaultOptions})

NextPlain ==
    \/ StartAt({ k * dt : k \in 0..(RENDER_QUANTUM_SIZE + 1) }, {0}, {F64_MAX})
    \/ SetBufferCall(PlainBuffers)
    \/ OnMessage
    \/ Process

SpecPlain == InitPlain /\ [][NextPlain]_vars

\* Loop points: a looping source, forward or reverse, whose loop start is at
\* frame 0 or between two frames, on non-empty buffers shorter and longer
\* than a block.
InitLoopPoints ==
    InitWith({ AudioBufferSourceOptions(None, 0, TRUE, ls, 0, pr) :
                 ls \in {0, dt + 1}, pr \in {-1, 1} })

NextLoopPoints ==
    \/ StartAt({0}, {0}, {F64_MAX})
    \/ SetBufferCall({ AudioBuffer(2, sample_rate, 1), AudioBuffer(MaxLen, sample_rate, 1) })
    \/ SetLoopStart({dt + 1})
    \/ SetLoopEnd({2 * dt})
    \/ OnMessage
    \/ Process

SpecLoopPoints == InitLoopPoints /\ [][NextLoopPoints]_vars

\* The control API: accepted and rejected calls, on a handle built with or
\* without a buffer in its options.
InitControl ==
    InitWith({ AudioBufferSourceOptions(b, 0, FALSE, 0, 0, 1) :
                 b \in {None, AudioBuffer(2, sample_rate, 1)} })

NextControl ==
    \/ StartAt({0, dt}, {0}, {F64_MAX})
    \/ StopAt({block_duration})
    \/ SetBufferCall({ AudioBuffer(2, sample_rate, 1), StereoBuffer })
    \/ SetLoop
    \/ RejectedCall({-1, 0, F64_INFINITY}, { AudioBuffer(MaxLen, sample_rate, 1) })
    \/ DropHandle
    \/ OnMessage
    \/ Process
    \/ BeforeDrop

SpecControl == InitControl /\ [][NextControl]_vars

\* Looping on the fast track: a looping source with the default loop bounds,
\* rate 1, a non-empty buffer at the context's rate, mono of every length up
\* to MaxLen or stereo, started on a block boundary.
InitLoopFast == InitWith({ AudioBufferSourceOptions(None, 0, TRUE, 0, 0, 1) })

NextLoopFast ==
    \/ StartAt({0, block_duration}, {0}, {F64_MAX})
    \/ SetBufferCall({ AudioBuffer(len, sample_rate, 1) : len \in 1..MaxLen })
    \/ SetBufferCall({StereoBuffer})
    \/ OnMessage
    \/ Process

SpecLoopFast == InitLoopFast /\ [][NextLoopFast]_vars

\* Loop points past the end of every buffer of the model.
PastEnd == (MaxLen + 1) * dt
FarPastEnd == (MaxLen + 2) * dt

\* Loop points (loop_start, loop_end) that are out of bounds, or that are in
\* bounds and do not satisfy loop_start < loop_end.
OutOfBoundsLoops ==
    { <<-2 * dt, -dt>>, <<-dt, -2 * dt>>, <<-dt, PastEnd>>, <<0, 0>>,
      <<dt, dt>>, <<PastEnd, -dt>>, <<PastEnd, PastEnd>>,
      <<PastEnd, FarPastEnd>>, <<FarPastEnd, PastEnd>> }

\* Loop bounds: a looping source, rate 1, whose loop points are out of
\* bounds or invalid at construction and are moved once by a setter, on
\* non-empty buffers at the context's rate, started on a sample.
InitLoopBounds ==
    InitWith({ AudioBufferSourceOptions(None, 0, TRUE, lp[1], lp[2], 1) :
                 lp \in OutOfBoundsLoops })

NextLoopBounds ==
    \/ StartAt({0, dt}, {0}, {F64_MAX})
    \/ SetBufferCall({ AudioBuffer(len, sample_rate, 1) : len \in 1..MaxLen })
    \/ SetBufferCall({StereoBuffer})
    \/ SetLoopStart({-dt, PastEnd})
    \/ SetLoopEnd({-dt, dt, PastEnd})
    \/ OnMessage
    \/ Process

SpecLoopBounds == InitLoopBounds /\ [][NextLoopBounds]_vars

\* Clamping: every kind of message applied in every order, with loop points
\* below, inside and past the buffer, and NaN, given at construction or by a
\* setter, before or after the buffer, on buffers of every length from 0 to
\* MaxLen and on a resampled buffer.
InitClamp ==
    InitWith({ AudioBufferSourceOptions(b, 0, TRUE, ls, le, 1) :
                 b \in {None, AudioBuffer(2, sample_rate, 1)},
                 ls \in {-dt, PastEnd}, le \in {-dt, dt} })

NextClamp ==
    \/ StartAt({0}, {0}, {F64_MAX})
    \/ StopAt({block_duration})
    \/ SetBufferCall(PlainBuffers)
    \/ SetBufferCall({ AudioBuffer(2, 2 * sample_rate, 1) })
    \/ SetLoop
    \/ SetLoopStart({-dt, dt + 1, PastEnd, NaN})
    \/ SetLoopEnd({-dt, 0, dt, PastEnd, NaN})
    \/ OnMessage

SpecClamp == InitClamp /\ [][NextClamp]_vars

\* Clamp calls: every message, process and before_drop, with loop points
\* inside and past the buffer and NaN, on empty and non-empty buffers.
InitClampCalls ==
    InitWith({ AudioBufferSourceOptions(None, 0, l, -dt, PastEnd, 1) :
                 l \in BOOLEAN })

NextClampCalls ==
    \/ StartAt({0}, {0}, {F64_MAX})
    \/ StopAt({dt + 1})
    \/ SetBufferCall({ AudioBuffer(0, sample_rate, 1), AudioBuffer(2, sample_rate, 1),
                       AudioBuffer(MaxLen, sample_rate, 1) })
    \/ SetLoop
    \/ SetLoopStart({dt, PastEnd})
    \/ SetLoopEnd({dt, NaN})
    \/ DropHandle
    \/ OnMessage
    \/ Process
    \/ BeforeDrop

SpecClampCalls == InitClampCalls /\ [][NextClampCalls]_vars

\* Durations: a source at rate 1, looping or not, started on or between
\* samples with an explicit duration that ends between two samples of the
\* first block or inside the second block, or with none.
InitDuration ==
    InitWith({ AudioBufferSourceOptions(None, 0, l, 0, 0, 1) : l \in BOOLEAN })

NextDuration ==
    \/ StartAt({0, dt + 1}, {0, dt}, {3 * dt + 1, block_duration + 2 * dt, F64_MAX})
    \/ SetBufferCall({ AudioBuffer(RENDER_QUANTUM_SIZE - 1, sample_rate, 1),
                       AudioBuffer(MaxBlocks * RENDER_QUANTUM_SIZE, sample_rate, 1) })
    \/ OnMessage
    \/ Process

SpecDuration == InitDuration /\ [][NextDuration]_vars

\* Endings: a source played forward, in reverse or at rate 0, looping or
\* not, with and without offset, duration and stop, on an empty, a short
\* and a long buffer.
InitEnd ==
    InitWith({ AudioBufferSourceOptions(None, 0, l, 0, 0, pr) :
                 l \in BOOLEAN, pr \in {-1, 0, 1} })

NextEnd ==
    \/ StartAt({0, dt + 1, 2 * block_duration}, {0, dt + 1}, {3 * dt, F64_MAX})
    \/ StopAt({block_duration + dt})
    \/ SetBufferCall({ AudioBuffer(0, sample_rate, 1), AudioBuffer(2, sample_rate, 1),
                       AudioBuffer(MaxLen, sample_rate, 1) })
    \/ OnMessage
    \/ Process

SpecEnd == InitEnd /\ [][NextEnd]_vars

\* Registration and message delivery: the state after new() has the
\* RegisterNode message pending and no renderer in the graph yet.
InitRegister ==
    \E options \in { AudioBufferSourceOptions(b, 0, l, 0, 0, 1) :
                        b \in {None, AudioBuffer(RENDER_QUANTUM_SIZE - 1, sample_rate, 1)},
                        l \in BOOLEAN } :
        \E res \in { new(options) } :
            /\ node = res.node
            /\ control = "alive"
            /\ loop_calls = 0
            /\ posted = [sched |-> <<>>,
                         buffers |-> IF options.buffer # None THEN 1 ELSE 0,
                         others |-> 0]
            /\ channel = res.post
            /\ renderer = None
            /\ params = [playback_rate |-> options.playback_rate,
                         detune |-> options.detune]
            /\ frames = 0
            /\ rendered = <<>>
            /\ events = 0
            /\ clamps = 0
            /\ thread = "running"
            /\ context = fetch_add(NewAudioContext).context
            /\ slot = None
            /\ callers = <<>>
            /\ offline = None

\* The render thread handles the oldest pending message, a RegisterNode:
\* the renderer joins the graph.
Register ==
    /\ thread = "running"
    /\ context.stream = "playing"
    /\ channel # <<>>
    /\ Head(channel).type = "RegisterNode"
    /\ renderer' = Head(channel).node
    /\ channel' = Tail(channel)
    /\ UNCHANGED << node, control, loop_calls, posted, params, frames, rendered,
                    events, clamps, thread, context, slot, callers, offline >>

\* The render thread routes the oldest pending message to the processor it
\* is addressed to.
NodeMessage ==
    /\ channel # <<>>
    /\ Head(channel).type # "RegisterNode"
    /\ renderer # None
    /\ OnMessage

\* The render thread processes the nodes of the graph.
RenderGraph ==
    /\ renderer # None
    /\ Process

NextRegister ==
    \/ StartAt({0, dt}, {0}, {F64_MAX})
    \/ StopAt({block_duration})
    \/ SetBufferCall({AudioBuffer(2, sample_rate, 1)})
    \/ SetLoop
    \/ SetLoopStart({dt})
    \/ Register
    \/ NodeMessage
    \/ RenderGraph

SpecRegister == InitRegister /\ [][NextRegister]_vars

\* Fast and slow track: sources at rate 1 and -1, looping or not, started on
\* and off a block boundary, with and without offset, duration and stop, on
\* buffers at the context's rate and at twice that rate, whose loop end
\* may be moved while they play.
NextFastTrack ==
    \/ StartAt({dt, block_duration}, {0, dt}, {block_duration + dt, F64_MAX})
    \/ StopAt({2 * block_duration})
    \/ SetBufferCall({ StereoBuffer,
                       AudioBuffer(MaxBlocks * RENDER_QUANTUM_SIZE, sample_rate, 1),
                       AudioBuffer(2 * RENDER_QUANTUM_SIZE, 2 * sample_rate, 1) })
    \/ SetLoopEnd({2 * dt})
    \/ OnMessage
    \/ Process

SpecFastTrack == Init /\ [][NextFastTrack]_vars

\* Suspension: a plain source is scheduled and rendered on a context that is
\* suspended, resumed and closed at any point.
NextSuspend ==
    \/ StartAt({dt}, {0}, {F64_MAX})
    \/ StopAt({block_duration + dt})
    \/ SetBufferCall({ AudioBuffer(2, sample_rate, 1), AudioBuffer(MaxLen, sample_rate, 1) })
    \/ Suspend
    \/ Resume
    \/ Close
    \/ OnMessage
    \/ Process

SpecSuspend == InitPlain /\ [][NextSuspend]_vars

\* Buffer messages: buffers of different lengths and channel counts reach a
\* processor with and without a buffer, before and during a playback.
NextSwap ==
    \/ StartAt({0}, {0}, {F64_MAX})
    \/ SetBufferCall({ AudioBuffer(MaxLen, sample_rate, 1) })
    \/ DeliverBuffer({ AudioBuffer(0, sample_rate, 1), AudioBuffer(2, sample_rate, 1),
                       StereoBuffer })
    \/ OnMessage
    \/ Process

SpecSwap == InitPlain /\ [][NextSwap]_vars

\* Sub-sample starts: start times between two samples, inside a block and
\* between the last sample of a block and the first of the next, forward
\* and reverse, from the start of the buffer and from inside it, on a
\* one-frame, a long and a resampled buffer; no looping.
InitSubSample ==
    InitWith({ AudioBufferSourceOptions(None, 0, FALSE, 0, 0, pr) : pr \in {-1, 1} })

NextSubSample ==
    \/ StartAt({dt + 1, block_duration - 1, block_duration + 1}, {0, 2 * dt}, {F64_MAX})
    \/ SetBufferCall({ AudioBuffer(1, sample_rate, 1), AudioBuffer(MaxLen, sample_rate, 1),
                       AudioBuffer(2, 2 * sample_rate, 1) })
    \/ OnMessage
    \/ Process

SpecSubSample == InitSubSample /\ [][NextSubSample]_vars

\* Reverse playback: playback rate -1, not looping, started on a sample
\* time from an offset on a frame, the end of the buffer among them, on
\* buffers of every length and a stereo one.
InitReverse == InitWith({ AudioBufferSourceOptions(None, 0, FALSE, 0, 0, -1) })

NextReverse ==
    \/ StartAt({0, dt, block_duration},
               { k * dt : k \in {0, 1, RENDER_QUANTUM_SIZE - 1, MaxLen - 1, MaxLen} },
               {F64_MAX})
    \/ SetBufferCall(PlainBuffers)
    \/ SetBufferCall({StereoBuffer})
    \/ OnMessage
    \/ Process

SpecReverse == InitReverse /\ [][NextReverse]_vars

\* Loop wrap: a looping source with a loop of one or two frames, or the
\* whole buffer, played forward and reverse at rates of one and three frames
\* per sample, the loop end moved during the playback.
InitLoopWrap ==
    InitWith({ AudioBufferSourceOptions(None, 0, TRUE, ls, 0, pr) :
                 ls \in {0, dt}, pr \in {-3, -1, 1, 3} })

NextLoopWrap ==
    \/ StartAt({0}, {0, 3 * dt}, {F64_MAX})
    \/ SetBufferCall({ AudioBuffer(MaxLen, sample_rate, 1) })
    \/ SetLoopEnd({2 * dt, 3 * dt})
    \/ OnMessage
    \/ Process

SpecLoopWrap == InitLoopWrap /\ [][NextLoopWrap]_vars

\* Loop region: a looping source with valid loop points after the start of
\* the buffer, on frames and between frames, played forward from offset 0 at
\* one and three frames per sample, looping switched off and on during the
\* playback.
InitLoopRegion ==
    InitWith({ AudioBufferSourceOptions(None, 0, TRUE, lp[1], lp[2], pr) :
                 lp \in { <<dt, 2 * dt>>, <<dt, 3 * dt>>, <<dt + 1, 2 * dt>> },
                 pr \in {1, 3} })

NextLoopRegion ==
    \/ StartAt({0, dt}, {0}, {F64_MAX})
    \/ SetBufferCall({ AudioBuffer(2, sample_rate, 1), StereoBuffer,
                       AudioBuffer(MaxLen, sample_rate, 1) })
    \/ SetLoop
    \/ OnMessage
    \/ Process

SpecLoopRegion == InitLoopRegion /\ [][NextLoopRegion]_vars

\* Downgrade: sources at rate 1 on a buffer of several blocks, looping or
\* not, built with the default loop end or a loop end inside the buffer,
\* started on a block boundary or inside a block, whose loop end is moved
\* into the buffer or back to its end while they play.
InitDowngrade ==
    InitWith({ AudioBufferSourceOptions(None, 0, l, 0, le, 1) :
                 l \in BOOLEAN, le \in {0, 2 * dt} })

NextDowngrade ==
    \/ StartAt({0, dt}, {0}, {F64_MAX})
    \/ SetBufferCall({ AudioBuffer(MaxBlocks * RENDER_QUANTUM_SIZE, sample_rate, 1) })
    \/ SetLoopEnd({2 * dt, MaxBlocks * block_duration})
    \/ OnMessage
    \/ Process

SpecDowngrade == InitDowngrade /\ [][NextDowngrade]_vars

\* Fast-track schedules: rate 1, offset 0, buffers at the context's rate
\* with the default loop bounds, looping or not, empty, shorter and longer
\* than a block, mono and stereo, started on a block boundary, late or inside
\* a block, with and without a duration and a stop time.
InitRefine ==
    InitWith({ AudioBufferSourceOptions(None, 0, l, 0, 0, 1) : l \in BOOLEAN })

NextRefine ==
    \/ StartAt({0, dt, block_duration}, {0}, {3 * dt, block_duration + 2 * dt, F64_MAX})
    \/ StopAt({block_duration + dt})
    \/ SetBufferCall({ AudioBuffer(0, sample_rate, 1), AudioBuffer(2, sample_rate, 1),
                       StereoBuffer, AudioBuffer(MaxLen, sample_rate, 1) })
    \/ OnMessage
    \/ Process

SpecRefine == InitRefine /\ [][NextRefine]_vars

\* ------------------------------------------------------------------------
\* The output as one signal
\* ------------------------------------------------------------------------

\* Number of output samples rendered so far.
RenderedSamples == Len(rendered) * RENDER_QUANTUM_SIZE

\* Output sample n (counted from 0, the first sample of the first block) of
\* channel ch, times PlayheadDen; a channel the block does not have is silent.
OutputSample(ch, n) ==
    LET blk == rendered[(n \div RENDER_QUANTUM_SIZE) + 1].block
    IN  IF ch <= Len(blk) THEN blk[ch][(n % RENDER_QUANTUM_SIZE) + 1] ELSE 0

\* The block rendered last.
LastBlock == rendered[Len(rendered)]

\* ------------------------------------------------------------------------
\* Claims
\* ------------------------------------------------------------------------

\* C1: a non-looping source at the context's rate, rate 1, offset 0, no stop
\* and no duration, that started on sample s, outputs buffer sample i at
\* output sample s + i for 0 <= i < N, and zero everywhere else; before it
\* has started the whole output is zero.
C1_PlainPlayback ==
    LET b == renderer.buffer
        s == renderer.start_time \div dt
    IN  \A n \in 0..(RenderedSamples - 1) :
            OutputSample(1, n) =
                IF renderer.render_state.started /\ s <= n /\ n < s + b.length
                THEN PlayheadDen * ChannelSample(b, 1, n - s)
                ELSE 0

\* C1 witness: the longest buffer (longer than a block), started on the
\* second sample of the first block, has been played to its last frame.
C1_Witness ==
    /\ renderer.render_state.ended
    /\ renderer.buffer # None
    /\ renderer.buffer.length = MaxLen
    /\ MaxLen > RENDER_QUANTUM_SIZE
    /\ renderer.start_time = dt
    /\ OutputSample(1, MaxLen) = PlayheadDen * ChannelSample(renderer.buffer, 1, MaxLen - 1)

\* The channels an output block may have.
Channels == 1..2

\* C2: ended is terminal.  In every step taken from a state where
\* render_state.ended is true, ended stays true and no ended event is
\* emitted; if the step is a call of process, the block it writes is silence
\* and it returns false.  The steps include the application of every kind of
\* message (Start, Stop, Loop, LoopStart, LoopEnd, SetBuffer).
C2_EndedIsTerminal ==
    [][ renderer.render_state.ended =>
          /\ renderer'.render_state.ended
          /\ events' = events
          /\ Len(rendered') > Len(rendered) =>
                /\ rendered'[Len(rendered')].block = SilentBlock
                /\ rendered'[Len(rendered')].ret = FALSE ]_vars

\* C2 witness: a source reached the end of its buffer in a block rendered
\* without looping (no stop, no duration, handle alive); Loop(true) was
\* applied, and the next block was rendered with the loop flag set and
\* returned false.
C2_Witness ==
    /\ renderer.render_state.ended
    /\ renderer.loop_state.is_looping
    /\ renderer.stop_time = F64_MAX
    /\ renderer.duration = F64_MAX
    /\ control = "alive"
    /\ Len(rendered) >= 2
    /\ rendered[Len(rendered) - 1].ret = TRUE
    /\ ~rendered[Len(rendered) - 1].looping
    /\ LastBlock.looping
    /\ LastBlock.ret = FALSE

\* C3: send_ended_event is called at most once, and exactly when ended
\* becomes true: the number of events is 1 when ended is set and 0 otherwise.
C3_EndedEventAtMostOnce ==
    events = IF renderer.render_state.ended THEN 1 ELSE 0

\* C3 witness: process ended the source at the end of its buffer and
\* emitted the event, and before_drop ran afterwards.
C3_Witness ==
    /\ events = 1
    /\ control = "finalized"
    /\ Len(rendered) >= 1
    /\ LastBlock.ret = TRUE
    /\ ~LastBlock.looping
    /\ renderer.stop_time = F64_MAX
    /\ renderer.duration = F64_MAX
    /\ params.playback_rate = 1
    /\ renderer.buffer # None
    /\ renderer.render_state.buffer_time >= BufferDuration(renderer.buffer)

\* C4: the render thread never panics (every buffer index that process
\* reads is in range).
C4_RenderNeverPanics == thread # "panicked"

\* C5: every output sample whose time is strictly before start_time is zero,
\* on every channel.
C5_SilentBeforeStart ==
    \A n \in 0..(RenderedSamples - 1) : \A ch \in Channels :
        n * dt < renderer.start_time => OutputSample(ch, n) = 0

\* C5 witness: a start between the second and the third sample of the first
\* block; the second sample is silent and the third is not.
C5_Witness ==
    /\ renderer.start_time = dt + 1
    /\ renderer.render_state.started
    /\ RenderedSamples >= RENDER_QUANTUM_SIZE
    /\ OutputSample(1, 1) = 0
    /\ OutputSample(1, 2) # 0

\* A step in which process renders a block of a source that has not ended
\* and to which Stop has been applied.
RendersAfterStop ==
    /\ frames' = frames + 1
    /\ renderer.stop_time # F64_MAX
    /\ ~renderer.render_state.ended

\* C6, as amended: for a node to which Stop has been applied, every block
\* that process renders is zero at every sample whose time is at or after
\* stop_time; ended is set, and the event emitted, by the first block with
\* next_block_time >= stop_time that is rendered with a buffer set and the
\* start time reached (start_time < next_block_time).  Without a buffer, or
\* before the start time, the block is silent and the node does not end.
C6_StopSilencesAndEndsOncePlayable ==
    [][ RendersAfterStop
        => LET blk == rendered'[Len(rendered')].block
               next_block_time == current_time + block_duration
               playable == /\ renderer.buffer # None
                           /\ renderer.start_time < next_block_time
           IN  /\ \A i \in 0..(RENDER_QUANTUM_SIZE - 1) : \A ch \in 1..Len(blk) :
                     current_time + i * dt >= renderer.stop_time => blk[ch][i + 1] = 0
               /\ (playable /\ next_block_time >= renderer.stop_time)
                     => renderer'.render_state.ended /\ events' = events + 1
               /\ ~playable
                     => /\ ~renderer'.render_state.ended
                        /\ events' = events
                        /\ blk = SilentBlock ]_vars

\* C6 witness: a source started at time 0 and stopped between the second
\* and the third sample of its first block has played the second sample,
\* not the third, and has ended in that block.
C6_Witness ==
    /\ renderer.start_time = 0
    /\ renderer.stop_time = dt + 1
    /\ Len(rendered) = 1
    /\ OutputSample(1, 1) # 0
    /\ OutputSample(1, 2) = 0
    /\ renderer.render_state.ended
    /\ events = 1

\* C6 as stated: for a node to which Stop has been applied, a block that
\* process renders writes zero at every sample whose time is at or after
\* stop_time, and ended is set by the block that reaches stop_time, with or
\* without a buffer.
C6_StopSilencesAndEnds ==
    [][ RendersAfterStop
        => LET blk == rendered'[Len(rendered')].block
           IN  /\ \A i \in 0..(RENDER_QUANTUM_SIZE - 1) : \A ch \in 1..Len(blk) :
                     current_time + i * dt >= renderer.stop_time => blk[ch][i + 1] = 0
               /\ current_time + block_duration >= renderer.stop_time
                     => renderer'.render_state.ended ]_vars

\* The sequence of scheduling messages a handle may have posted.
StartThenStop == << "StartWithOffsetAndDuration", "Stop" >>

\* C7: start_stop_count is 0, 1 or 2 and counts the scheduling messages
\* posted, which are a prefix of [StartWithOffsetAndDuration, Stop]: start
\* succeeds at most once, stop at most once and only after start, and the
\* count never decreases.
C7_StartStopOnce ==
    /\ node.start_stop_count \in {0, 1, 2}
    /\ Len(posted.sched) = node.start_stop_count
    /\ \A i \in 1..Len(posted.sched) : posted.sched[i] = StartThenStop[i]

\* C7 witness: start and stop both succeeded, and a later call was rejected.
C7_Witness ==
    /\ node.start_stop_count = 2
    /\ posted.sched = StartThenStop
    /\ control = "panicked"

\* C8: a rejected call posts no message and leaves the handle unchanged;
\* the render side is not touched by it.
C8_RejectedCallChangesNothing ==
    [][ (control = "alive" /\ control' = "panicked")
        => /\ node' = node
           /\ channel' = channel
           /\ posted' = posted
           /\ renderer' = renderer ]_vars

\* C8 witness: a call was rejected on a started handle whose Start message
\* is the only scheduling message posted.
C8_Witness ==
    /\ control = "panicked"
    /\ node.start_stop_count = 1
    /\ posted.sched = << "StartWithOffsetAndDuration" >>
    /\ renderer.stop_time = F64_MAX

\* C9: at most one AudioBuffer message is ever posted, counting the buffer
\* of the construction options, and once the renderer holds a buffer it is
\* never replaced.
C9_BufferSetAtMostOnce ==
    [][ /\ posted.buffers <= 1
        /\ posted'.buffers <= 1
        /\ renderer.buffer # None => renderer'.buffer = renderer.buffer ]_vars

\* C9 witness: the buffer given in the options reached the renderer, and a
\* call on the handle (neither started nor stopped) was rejected afterwards.
C9_Witness ==
    /\ posted.buffers = 1
    /\ node.buffer # None
    /\ renderer.buffer = node.buffer
    /\ node.start_stop_count = 0
    /\ control = "panicked"

\* C10: a looping source on the fast track, started on sample s, a block
\* boundary, outputs buffer sample (n - s) mod L at every output sample
\* n >= s, on every channel of the buffer; every block from the start on is
\* rendered by the fast track.
C10_FastTrackLoop ==
    renderer.render_state.started =>
        LET b == renderer.buffer
            s == renderer.start_time \div dt
        IN  /\ renderer.start_time % block_duration = 0
            /\ \A n \in s..(RenderedSamples - 1) :
                  /\ rendered[(n \div RENDER_QUANTUM_SIZE) + 1].track = "fast"
                  /\ \A ch \in 1..b.number_of_channels :
                        OutputSample(ch, n) =
                            PlayheadDen * ChannelSample(b, ch, (n - s) % b.length)

\* C10 witness: the stereo buffer, one frame shorter than a block, looped
\* from time 0 over all the blocks: the second channel's last sample.
C10_Witness ==
    /\ renderer.render_state.started
    /\ renderer.buffer = StereoBuffer
    /\ renderer.start_time = 0
    /\ Len(rendered) = MaxBlocks
    /\ OutputSample(2, RenderedSamples - 1) =
          PlayheadDen * ChannelSample(StereoBuffer, 2,
                                      (RenderedSamples - 1) % StereoBuffer.length)

\* The render-side loop bounds, with a buffer of duration d set, loop the
\* whole buffer: they are (0, d), or they do not satisfy start < end.
LoopsWholeBuffer(loop_start, loop_end, d) ==
    \/ loop_start = 0 /\ loop_end = d
    \/ ~Lt(loop_start, loop_end)

\* Every block rendered so far from the buffer was rendered looping, with
\* loop bounds that loop the whole buffer, and so would be the next one.
AlwaysLoopedWholeBuffer ==
    LET d == BufferDuration(renderer.buffer)
    IN  /\ renderer.loop_state.is_looping
        /\ LoopsWholeBuffer(renderer.loop_state.start, renderer.loop_state.end, d)
        /\ \A i \in 1..Len(rendered) :
              rendered[i].track # "none"
                 => /\ rendered[i].looping
                    /\ LoopsWholeBuffer(rendered[i].loop_start, rendered[i].loop_end, d)

\* C11: with looping on and loop points that are out of bounds or, once
\* clamped, not loop_start < loop_end, the whole buffer (N >= 1 frames) is
\* looped: at rate 1 from offset 0, started on sample s, output sample n >= s
\* is buffer sample (n - s) mod N on every channel, and process returns
\* (no panic, no endless loop).
C11_OutOfBoundsLoopsWholeBuffer ==
    (renderer.buffer # None /\ AlwaysLoopedWholeBuffer) =>
        /\ thread = "running"
        /\ renderer.render_state.started =>
              LET b == renderer.buffer
                  s == renderer.start_time \div dt
              IN  \A n \in s..(RenderedSamples - 1) :
                     \A ch \in 1..b.number_of_channels :
                        OutputSample(ch, n) =
                            PlayheadDen * ChannelSample(b, ch, (n - s) % b.length)

\* C11 witness: loop points (PastEnd, -dt), clamped to (d, d), on a buffer
\* of two frames started at time 0: the slow track has looped it over all
\* the blocks.
C11_Witness ==
    /\ renderer.buffer # None
    /\ renderer.buffer.length = 2
    /\ AlwaysLoopedWholeBuffer
    /\ node.loop_state.start = PastEnd
    /\ node.loop_state.end = -dt
    /\ renderer.loop_state.start = BufferDuration(renderer.buffer)
    /\ renderer.loop_state.end = BufferDuration(renderer.buffer)
    /\ renderer.start_time = 0
    /\ Len(rendered) = MaxBlocks
    /\ \A i \in 1..MaxBlocks : rendered[i].track = "slow"
    /\ OutputSample(1, RenderedSamples - 1) =
          PlayheadDen * ChannelSample(renderer.buffer, 1, (RenderedSamples - 1) % 2)

\* C12, as amended: whenever the render-side buffer is set (duration d),
\* a loop start that is a number satisfies 0 <= start <= d, and a loop end
\* that is a number satisfies 0 <= end <= d, and 0 < end when the buffer is
\* not empty (d > 0); with an empty buffer both are 0.
C12_LoopBoundsClampedToBuffer ==
    renderer.buffer # None =>
        LET d == BufferDuration(renderer.buffer)
            ls == renderer.loop_state
        IN  /\ ls.start # NaN => Le(0, ls.start) /\ Le(ls.start, d)
            /\ ls.end # NaN => /\ Le(0, ls.end) /\ Le(ls.end, d)
                               /\ d > 0 => Lt(0, ls.end)

\* C12 witness: loop points sent before the buffer (start past the end,
\* end below zero) were clamped to (d, d) when the longest buffer was set.
C12_Witness ==
    /\ renderer.buffer # None
    /\ renderer.buffer.length = MaxLen
    /\ posted.buffers = 1
    /\ node.loop_state.start = PastEnd
    /\ node.loop_state.end = -dt
    /\ renderer.loop_state.start = BufferDuration(renderer.buffer)
    /\ renderer.loop_state.end = BufferDuration(renderer.buffer)
    /\ channel = <<>>

\* C12 as stated: whenever the render-side buffer is set (duration d),
\* 0 <= start <= d and 0 < end <= d, for every buffer length.
C12_LoopBoundsClamped ==
    renderer.buffer # None =>
        LET d == BufferDuration(renderer.buffer)
            ls == renderer.loop_state
        IN  /\ Le(0, ls.start) /\ Le(ls.start, d)
            /\ Lt(0, ls.end) /\ Le(ls.end, d)

\* A step in which the render thread applies the oldest pending message.
AppliesMessage == channel # <<>> /\ Len(channel') = Len(channel) - 1

\* A step that changes the render-side loop bounds.
MovesLoopBounds ==
    \/ renderer'.loop_state.start # renderer.loop_state.start
    \/ renderer'.loop_state.end # renderer.loop_state.end

\* C13, as amended: the clamp is called only while a message is applied,
\* once per message: when a buffer is installed and at the end of every
\* control message (Start, Stop, Loop, LoopStart, LoopEnd); process and
\* before_drop never call it.  Every change of the render-side buffer and
\* every LoopStart and LoopEnd calls it.  The loop bounds change only when
\* a buffer, a LoopStart or a LoopEnd is applied: the clamp that follows
\* Start, Stop and Loop leaves them as they are.
C13_ClampOnMessagesOnly ==
    [][ /\ clamps' # clamps => AppliesMessage /\ clamps' = clamps + 1
        /\ (AppliesMessage /\ IsControlMessage(Head(channel))) => clamps' = clamps + 1
        /\ renderer'.buffer # renderer.buffer => clamps' = clamps + 1
        /\ MovesLoopBounds =>
              /\ AppliesMessage
              /\ Head(channel).type \in {"AudioBuffer", "LoopStart", "LoopEnd"} ]_vars

\* C13 witness: the buffer was installed, then Start was applied (two clamp
\* calls, no loop setter called), the loop start given as -dt at
\* construction is clamped to 0, a block was rendered and before_drop ran.
C13_Witness ==
    /\ clamps = 2
    /\ loop_calls = 0
    /\ posted.buffers = 1
    /\ node.start_stop_count = 1
    /\ channel = <<>>
    /\ renderer.buffer # None
    /\ renderer.start_time = 0
    /\ node.loop_state.start = -dt
    /\ renderer.loop_state.start = 0
    /\ Len(rendered) >= 1
    /\ control = "finalized"

\* C13 as stated: the clamp is called when a buffer is set and when a
\* LoopStart or LoopEnd is applied and never elsewhere (not by Start, Stop,
\* Loop, process or before_drop), and every change of the render-side
\* buffer calls it.
C13_ClampOnBufferAndLoopBoundsOnly ==
    [][ /\ clamps' # clamps =>
              /\ AppliesMessage
              /\ Head(channel).type \in {"AudioBuffer", "LoopStart", "LoopEnd"}
        /\ (AppliesMessage /\ Head(channel).type \in {"LoopStart", "LoopEnd"})
              => clamps' = clamps + 1
        /\ renderer'.buffer # renderer.buffer => clamps' = clamps + 1 ]_vars

\* C14: with a buffer of 0 frames, process returns normally from every
\* block (no panic, no endless loop) and every block it writes is all zeros
\* on every channel, whatever the schedule, the loop flag and the sign of
\* the playback rate.
C14_EmptyBufferIsSilent ==
    (renderer.buffer # None /\ renderer.buffer.length = 0) =>
        /\ thread = "running"
        /\ \A n \in 0..(RenderedSamples - 1) : \A ch \in Channels :
              OutputSample(ch, n) = 0

\* C15: with an explicit duration D, every output sample at which D or more
\* of buffer time has been played since the start is zero (the sample at
\* which the elapsed time is still below D is the last one played), looping
\* or not; and no block before whose end the duration expires is rendered
\* by the fast track.
C15_DurationLimitsPlayback ==
    (renderer.render_state.started /\ renderer.duration # F64_MAX) =>
        LET rate == computed_playback_rate(params)
            start_time == renderer.start_time
        IN  /\ \A n \in 0..(RenderedSamples - 1) : \A ch \in Channels :
                  (n * dt >= start_time /\ (n * dt - start_time) * rate >= renderer.duration)
                      => OutputSample(ch, n) = 0
            /\ \A i \in 1..Len(rendered) :
                  rendered[i].track = "fast"
                      => i * block_duration <= start_time + renderer.duration

\* The value (times PlayheadDen) of channel ch of buffer b at buffer time t,
\* by linear interpolation between the two frames around t; silence from
\* the end of the buffer on.  (The frames are a ramp, so past the last
\* frame this is also the value the extrapolation from the last two gives.)
BufferValueAt(b, ch, t) ==
    LET playhead == t * b.sample_rate
        prev_frame_index == playhead \div PlayheadDen
        k == playhead % PlayheadDen
    IN  IF t >= BufferDuration(b) THEN 0
        ELSE (PlayheadDen - k) * ChannelSample(b, ch, prev_frame_index)
                + k * ChannelSample(b, ch, prev_frame_index + 1)

\* A step in which process renders a block for a source that has a buffer
\* and has not started, and whose start_time is earlier than the block's.
RendersStartInThePast ==
    /\ frames' = frames + 1
    /\ ~renderer.render_state.ended
    /\ ~renderer.render_state.started
    /\ renderer.buffer # None
    /\ renderer.start_time < current_time

\* C16: a start in the past begins immediately.  When process renders a
\* block for a not yet started source whose start_time is earlier than the
\* block's time, start_time becomes the block's time, and (not looping, rate
\* 1, buffer of two frames or more at the context's rate, no stop, no
\* duration) sample i of the block is the buffer at time offset + i * dt
\* on every channel: playback begins at `offset` on the first sample.
C16_StartInThePastBeginsNow ==
    [][ RendersStartInThePast
        => /\ renderer'.start_time = current_time
           /\ ( /\ ~renderer.loop_state.is_looping
                /\ computed_playback_rate(params) = 1
                /\ renderer.buffer.sample_rate = sample_rate
                /\ renderer.buffer.length >= 2
                /\ renderer.stop_time = F64_MAX
                /\ renderer.duration = F64_MAX )
              => LET blk == rendered'[Len(rendered')].block
                     b == renderer.buffer
                 IN  /\ renderer'.render_state.started
                     /\ Len(blk) = b.number_of_channels
                     /\ \A ch \in 1..b.number_of_channels :
                           \A i \in 0..(RENDER_QUANTUM_SIZE - 1) :
                              blk[ch][i + 1] = BufferValueAt(b, ch, renderer.offset + i * dt)
      ]_vars

\* C16 witness: a start scheduled between the second and the third sample
\* of the first block, with an offset of one frame and a half, was rendered
\* for the first time in the third block: start_time is that block's time
\* and the block's first sample is the buffer at the offset.
C16_Witness ==
    /\ Len(rendered) = 3
    /\ LastBlock.start_time = dt + 1
    /\ LastBlock.track = "slow"
    /\ renderer.start_time = 2 * block_duration
    /\ renderer.offset = dt + 1
    /\ renderer.buffer # None
    /\ renderer.buffer.length = MaxLen
    /\ ~renderer.loop_state.is_looping
    /\ params.playback_rate = 1
    /\ renderer.stop_time = F64_MAX
    /\ renderer.duration = F64_MAX
    /\ OutputSample(1, 2 * RENDER_QUANTUM_SIZE) = BufferValueAt(renderer.buffer, 1, dt + 1)
    /\ OutputSample(1, 2 * RENDER_QUANTUM_SIZE) # 0

\* A step in which before_drop runs for a source that has not ended and
\* whose start time is still ahead (F64_MAX when Start was never applied).
DropsBeforeStartTime ==
    /\ control = "dropped"
    /\ control' = "finalized"
    /\ ~renderer.render_state.ended
    /\ current_time < renderer.start_time

\* C17, as amended: dropping the handle of a source whose start was never
\* called, or whose start time is still in the future, emits no ended event
\* and leaves the processor as it is (not ended).
C17_DropBeforeStartTimeEmitsNothing ==
    [][ DropsBeforeStartTime
        => /\ events' = events
           /\ renderer' = renderer ]_vars

\* C17 witness: a source with a buffer, scheduled to start inside the first
\* block, was dropped before any block was rendered; before_drop has run,
\* no event was emitted and the processor is not ended.
C17_Witness ==
    /\ control = "finalized"
    /\ frames = 0
    /\ renderer.start_time = dt + 1
    /\ renderer.buffer # None
    /\ ~renderer.render_state.ended
    /\ events = 0

\* C17 as stated: dropping the handle of a source whose start was never
\* called, or whose start time is still in the future, emits the ended
\* event and marks the processor ended.
C17_DropBeforeStartTimeEnds ==
    [][ DropsBeforeStartTime
        => /\ events' = events + 1
           /\ renderer'.render_state.ended ]_vars

\* A step in which before_drop runs.
RunsBeforeDrop == control = "dropped" /\ control' = "finalized"

\* C18: before_drop emits one ended event and sets ended (and changes
\* nothing else) exactly when the processor is not ended and
\* scope.current_time >= start_time; otherwise it changes nothing and emits
\* nothing.  So a source that has started is ended once before_drop has
\* run, by process earlier or by before_drop now.
C18_BeforeDropEndsStartedSource ==
    [][ RunsBeforeDrop
        => LET due == /\ ~renderer.render_state.ended
                      /\ current_time >= renderer.start_time
           IN  /\ due => /\ renderer' = [renderer EXCEPT !.render_state.ended = TRUE]
                         /\ events' = events + 1
               /\ ~due => /\ renderer' = renderer
                          /\ events' = events
               /\ renderer.render_state.started => renderer'.render_state.ended ]_vars

\* C18 witness: a source (not looping, rate 1, no stop, no duration) was
\* still inside its buffer after the last block rendered when its handle
\* was dropped; before_drop ended it and emitted the event.
C18_Witness ==
    /\ control = "finalized"
    /\ renderer.render_state.started
    /\ renderer.render_state.ended
    /\ events = 1
    /\ ~renderer.loop_state.is_looping
    /\ params.playback_rate = 1
    /\ renderer.stop_time = F64_MAX
    /\ renderer.duration = F64_MAX
    /\ Len(rendered) >= 1
    /\ LastBlock.track = "fast"
    /\ renderer.render_state.buffer_time < BufferDuration(renderer.buffer)

\* A step in which process returns from a block.
ProcessesBlock == frames' = frames + 1

\* The block is rendered: none of the early exits of process is taken.
RendersBlock ==
    /\ ~renderer.render_state.ended
    /\ renderer.start_time < current_time + block_duration
    /\ renderer.buffer # None

\* C19, as amended: in a block that process renders (the source has not
\* ended, start_time < next_block_time, a buffer is set) ended is set and
\* the ended event emitted if and only if, at the end of the block,
\* next_block_time >= stop_time, or buffer_time_elapsed >= duration, or the
\* source is not looping and the playhead has left the buffer in the
\* direction of play (rate > 0 and buffer_time >= buffer duration, or
\* rate < 0 and buffer_time < 0); in a block that takes an early exit
\* nothing is set or emitted.  So a looping source, and a source at rate 0,
\* with no stop and no duration, is not ended by process.
C19_EndedIffEndReachedInRenderedBlock ==
    [][ ProcessesBlock
        => LET rate == computed_playback_rate(params)
               rs == renderer'.render_state
               reached ==
                  \/ current_time + block_duration >= renderer'.stop_time
                  \/ rs.buffer_time_elapsed >= renderer'.duration
                  \/ /\ ~renderer.loop_state.is_looping
                     /\ \/ rate > 0 /\ rs.buffer_time >= BufferDuration(renderer.buffer)
                        \/ rate < 0 /\ rs.buffer_time < 0
               emitted == events' = events + 1
           IN  /\ events' \in {events, events + 1}
               /\ RendersBlock => /\ rs.ended <=> reached
                                  /\ emitted <=> reached
               /\ ~RendersBlock => /\ rs.ended = renderer.render_state.ended
                                   /\ ~emitted
               /\ ( /\ renderer.loop_state.is_looping \/ rate = 0
                    /\ renderer.stop_time = F64_MAX
                    /\ renderer.duration = F64_MAX
                    /\ ~renderer.render_state.ended )
                  => ~rs.ended /\ ~emitted ]_vars

\* C19 witness: a source played in reverse from an offset, not looping, no
\* stop and no duration, has ended in the block in which its playhead went
\* below zero, with one event.
C19_Witness ==
    /\ renderer.render_state.ended
    /\ events = 1
    /\ params.playback_rate = -1
    /\ ~renderer.loop_state.is_looping
    /\ renderer.stop_time = F64_MAX
    /\ renderer.duration = F64_MAX
    /\ renderer.offset = dt + 1
    /\ renderer.render_state.buffer_time < 0
    /\ Len(rendered) >= 1
    /\ LastBlock.ret = TRUE
    /\ LastBlock.track = "slow"
    /\ LastBlock.block[1][1] # 0

\* C19 as stated: in every block of a source that has not ended, process
\* sets ended and emits the ended event if and only if, at the end of the block, next_block_time >=
\* stop_time, or buffer_time_elapsed >= duration, or the source is not
\* looping and the playhead has left the buffer in the direction of play.
C19_EndedIffEndReached ==
    [][ (ProcessesBlock /\ ~renderer.render_state.ended)
        => LET rate == computed_playback_rate(params)
               rs == renderer'.render_state
               reached ==
                  \/ current_time + block_duration >= renderer'.stop_time
                  \/ rs.buffer_time_elapsed >= renderer'.duration
                  \/ /\ ~renderer.loop_state.is_looping
                     /\ renderer.buffer # None
                     /\ \/ rate > 0 /\ rs.buffer_time >= BufferDuration(renderer.buffer)
                        \/ rate < 0 /\ rs.buffer_time < 0
           IN  (rs.ended /\ events' = events + 1) <=> reached ]_vars

\* Until the renderer has joined the graph, its RegisterNode message is the
\* oldest pending message, and no other RegisterNode message is pending.
RegistrationFirst ==
    /\ \A i \in 1..Len(channel) : channel[i].type = "RegisterNode" => i = 1
    /\ renderer = None => channel # <<>> /\ Head(channel).type = "RegisterNode"

\* A step that changes the channel either posts at its tail or handles its
\* head: a RegisterNode puts the shipped renderer in the graph, any other
\* message is applied by the processor's onmessage.
InOrder ==
    channel' # channel =>
        \/ /\ Len(channel') > Len(channel)
           /\ SubSeq(channel', 1, Len(channel)) = channel
           /\ renderer' = renderer
        \/ /\ channel # <<>>
           /\ channel' = Tail(channel)
           /\ renderer' = IF Head(channel).type = "RegisterNode"
                          THEN Head(channel).node
                          ELSE onmessage(renderer, Head(channel))

\* A block is processed with no message pending, by a processor that has
\* the buffer and the loop flag the handle has.
DrainedBeforeProcess ==
    frames' # frames =>
        /\ channel = <<>>
        /\ renderer # None
        /\ renderer.buffer = node.buffer
        /\ renderer.loop_state.is_looping = node.loop_state.is_looping

\* C20: messages are applied to the processor in the order they were
\* posted, the RegisterNode message of a node is ahead of every message
\* addressed to the node (the AudioBuffer message that new posts for
\* options.buffer included), and a render callback processes the node only
\* once every pending message has been applied.
C20_MessagesInOrderAfterRegistration ==
    /\ []RegistrationFirst
    /\ [][InOrder /\ DrainedBeforeProcess]_vars

\* The first block plays the buffer given in the options: the RegisterNode,
\* AudioBuffer and start messages were all applied, in that order, before
\* the block was processed.
C20_Witness ==
    /\ frames = 1
    /\ posted.buffers = 1
    /\ posted.sched = << "StartWithOffsetAndDuration" >>
    /\ channel = <<>>
    /\ renderer # None
    /\ renderer.buffer = AudioBuffer(RENDER_QUANTUM_SIZE - 1, sample_rate, 1)
    /\ rendered[1].track = "fast"
    /\ rendered[1].block[1][1] # 0

\* The conditions a block has to satisfy to stay on the fast track, from
\* the processor r at the entry of the block that starts at block_time.
FastTrackConditions(r, p, block_time) ==
    /\ r.buffer.sample_rate = sample_rate
    /\ computed_playback_rate(p) = 1
    /\ r.loop_state.start = 0
    /\ r.loop_state.end = BufferDuration(r.buffer)
    /\ r.render_state.buffer_time + block_duration <= r.duration
    /\ block_time + block_duration <= r.stop_time

\* The block is the first block of a playback that starts on the block's
\* first sample (a start time in the past included) with offset 0.
StartsAligned(r, block_time) ==
    /\ ~r.render_state.started
    /\ r.start_time <= block_time
    /\ r.offset = 0

\* The copy of the buffer a fast-track block is: the frames that follow the
\* playhead, then the frames from 0 on again when looping, zeros when not.
FastTrackCopy(b, is_looping, buffer_time) ==
    [ch \in 1..b.number_of_channels |->
        [i \in 1..RENDER_QUANTUM_SIZE |->
            LET idx == (buffer_time \div dt) + i - 1
            IN  IF idx < b.length THEN PlayheadDen * ChannelSample(b, ch, idx)
                ELSE IF is_looping
                THEN PlayheadDen * ChannelSample(b, ch, idx % b.length)
                ELSE 0]]

\* C21: a block that process renders is rendered by the fast track if and
\* only if it satisfies the conditions (buffer at the context's rate,
\* computed rate 1, loop bounds 0 and the buffer's duration, duration and
\* stop time not within the block) and either it is the first block of a
\* playback that starts on its first sample with offset 0, or the block
\* before it was rendered by the fast track; a fast-track block is a copy
\* of the buffer's frames from the playhead on.
C21_FastTrackIffAligned ==
    [][ (Len(rendered') > Len(rendered) /\ rendered'[Len(rendered')].track # "none") =>
          LET blk == rendered'[Len(rendered')]
              fast == blk.track = "fast"
          IN  /\ fast <=>
                    /\ FastTrackConditions(renderer, params, current_time)
                    /\ \/ StartsAligned(renderer, current_time)
                       \/ rendered # <<>> /\ LastBlock.track = "fast"
              /\ fast => blk.block = FastTrackCopy(renderer.buffer,
                                                   renderer.loop_state.is_looping,
                                                   renderer.render_state.buffer_time)
      ]_vars

\* C21 witness: two blocks on the fast track, then, the loop end moved
\* into the buffer, a block on the slow track.
C21_Witness ==
    /\ Len(rendered) = 3
    /\ rendered[1].track = "fast"
    /\ rendered[2].track = "fast"
    /\ rendered[3].track = "slow"
    /\ rendered[3].loop_end = 2 * dt
    /\ renderer.stop_time = F64_MAX
    /\ renderer.duration = F64_MAX

\* The call just made on the handle posted a message of this type.
Posted(type) ==
    /\ Len(channel') = Len(channel) + 1
    /\ channel'[Len(channel')].type = type

\* C22: on a handle that has a buffer, of duration d, set_loop_start stores
\* a loop start clamped to [0, d] and set_loop_end a loop end clamped to
\* (0, d] (d itself when the value is out of range), so that loop_start()
\* and loop_end() return clamped values.
C22_SettersClampLocally ==
    [][ node.buffer # None =>
          LET d == BufferDuration(node.buffer)
          IN  /\ Posted("LoopStart") =>
                    Ge(node'.loop_state.start, 0) /\ Le(node'.loop_state.start, d)
              /\ Posted("LoopEnd") =>
                    \/ node'.loop_state.end = d
                    \/ Gt(node'.loop_state.end, 0) /\ Le(node'.loop_state.end, d)
      ]_vars

\* C23: process returns false exactly when the processor was ended at
\* entry, or start_time is f64::MAX (never scheduled), or start_time is
\* before the end of the block and no buffer is set; so it returns true
\* when the start is scheduled for a later block and in every block it
\* renders, the block that sets ended included.
C23_KeepAliveUntilEnded ==
    [][ ProcessesBlock =>
          LET blk == rendered'[Len(rendered')]
              next_block_time == current_time + block_duration
          IN  /\ ~blk.ret <=>
                    \/ renderer.render_state.ended
                    \/ renderer.start_time = F64_MAX
                    \/ renderer.start_time < next_block_time /\ renderer.buffer = None
              /\ blk.track # "none" => blk.ret
              /\ (~renderer.render_state.ended /\ renderer'.render_state.ended) => blk.ret
      ]_vars

\* C23 witness: a block was rendered, set ended and returned true, and the
\* block after it returned false.
C23_Witness ==
    /\ Len(rendered) >= 2
    /\ rendered[Len(rendered) - 1].track # "none"
    /\ rendered[Len(rendered) - 1].ret = TRUE
    /\ LastBlock.track = "none"
    /\ LastBlock.ret = FALSE
    /\ renderer.render_state.ended
    /\ events = 1

\* A step in which process is called for a source that has not ended, whose
\* start time is before the end of the block, and that has no buffer.
ProcessesWithoutBuffer ==
    /\ ProcessesBlock
    /\ ~renderer.render_state.ended
    /\ renderer.start_time < current_time + block_duration
    /\ renderer.buffer = None

\* A step in which process renders the first block after blocks without a
\* buffer: the block before it was a silent block of a source whose start
\* time had been reached.
RendersAfterBufferArrived ==
    /\ ProcessesBlock
    /\ ~renderer.render_state.ended
    /\ renderer.buffer # None
    /\ rendered # <<>>
    /\ LastBlock.track = "none"
    /\ LastBlock.start_time < current_time

\* C24: a block processed without a buffer is silent and changes nothing
\* (ended is not set, no ended event, start_time, offset and started as
\* before); when the buffer has arrived, the next processed block starts
\* the playback on its first sample, from `offset` (not looping, rate 1,
\* buffer of two frames or more at the context's rate, no stop, no
\* duration: sample i of the block is the buffer at time offset + i * dt).
C24_MissingBufferIsNotAnError ==
    [][ /\ ProcessesWithoutBuffer =>
              /\ rendered'[Len(rendered')].block = SilentBlock
              /\ renderer' = renderer
              /\ events' = events
              /\ thread' = "running"
        /\ RendersAfterBufferArrived =>
              /\ ~renderer.render_state.started
              /\ renderer'.start_time = current_time
              /\ ( /\ ~renderer.loop_state.is_looping
                   /\ computed_playback_rate(params) = 1
                   /\ renderer.buffer.sample_rate = sample_rate
                   /\ renderer.buffer.length >= 2
                   /\ renderer.stop_time = F64_MAX
                   /\ renderer.duration = F64_MAX )
                 => /\ renderer'.render_state.started
                    /\ \A ch \in 1..renderer.buffer.number_of_channels :
                          \A i \in 0..(RENDER_QUANTUM_SIZE - 1) :
                             rendered'[Len(rendered')].block[ch][i + 1] =
                                BufferValueAt(renderer.buffer, ch, renderer.offset + i * dt)
      ]_vars

\* C24 witness: the first block was processed with the start time reached
\* and no buffer; the second block plays the buffer from `offset`, here
\* between two frames, on its first sample.
C24_Witness ==
    /\ Len(rendered) = 2
    /\ rendered[1].track = "none"
    /\ rendered[1].start_time = 0
    /\ rendered[2].track = "slow"
    /\ renderer.start_time = block_duration
    /\ renderer.offset = dt + 1
    /\ renderer.buffer = AudioBuffer(MaxLen, sample_rate, 1)
    /\ ~renderer.loop_state.is_looping
    /\ params.playback_rate = 1
    /\ rendered[2].block[1][1] = BufferValueAt(renderer.buffer, 1, dt + 1)
    /\ rendered[2].block[1][1] # 0

\* C25: the context's current_time is the number of frames rendered so far
\* divided by the sample rate: it never decreases, and every rendered block
\* advances it by one block duration.
C25_CurrentTimeCountsRenderedFrames ==
    [][ /\ BaseAudioContext_current_time(context') >= BaseAudioContext_current_time(context)
        /\ ProcessesBlock =>
              /\ BaseAudioContext_current_time(context') =
                    BaseAudioContext_current_time(context) + block_duration
              /\ BaseAudioContext_current_time(context') = frames' * block_duration
      ]_vars

\* The render callback did not run in the step: nothing was rendered, no
\* message was handled, the processor and both clocks are as before.
NoRenderCallback ==
    /\ frames' = frames
    /\ rendered' = rendered
    /\ renderer' = renderer
    /\ events' = events
    /\ Len(channel') >= Len(channel)
    /\ BaseAudioContext_current_time(context') = BaseAudioContext_current_time(context)

BlockEndPlayheads(h) ==
    { h[i].stores[Len(h[i].stores)] : i \in { j \in 1..Len(h) : h[j].stores # <<>> } }

\* What a read of position() can return during the step: the value before
\* the step and every value the step stores.
ObservableDuring(h, h2, before) ==
    {before} \cup (IF Len(h2) > Len(h)
                    THEN { h2[Len(h2)].stores[k] : k \in 1..Len(h2[Len(h2)].stores) }
                    ELSE {})

\* C27: position() is 0 or the playhead at the end of a rendered block, at
\* any moment.  A block that produces output (fast or slow track) stores the
\* playhead once, the value position() returns afterwards; a block that
\* takes an early exit stores nothing and leaves position() as it was; no
\* other step changes it.
C27_PositionIsABlockEndSnapshot ==
    [][ /\ ObservableDuring(rendered, rendered', position(renderer))
              \subseteq ({0} \cup BlockEndPlayheads(rendered'))
        /\ IF Len(rendered') > Len(rendered)
           THEN LET b == rendered'[Len(rendered')]
                IN  IF b.track = "none"
                    THEN /\ b.stores = <<>>
                         /\ position(renderer') = position(renderer)
                    ELSE /\ Len(b.stores) = 1
                         /\ position(renderer') = b.stores[1]
           ELSE position(renderer') = position(renderer)
      ]_vars

\* C27 witness: three blocks of a playback started between two samples of
\* the first block: the first two moved the playhead, the third, after the
\* end, took the early exit and left the stored value alone.
C27_Witness ==
    /\ Len(rendered) = 3
    /\ rendered[1].track = "slow"
    /\ rendered[2].track # "none"
    /\ rendered[3].track = "none"
    /\ 0 < rendered[1].stores[1]
    /\ rendered[1].stores[1] < rendered[2].stores[1]
    /\ rendered[1].stores[1] % dt # 0
    /\ position(renderer) = rendered[2].stores[1]

\* C28: an AudioBuffer message applied to a processor that holds a buffer
\* swaps the two: the processor then holds the new buffer and the message
\* the previous one, so that between them the same two buffers exist before
\* and after.  Applied to a processor without a buffer, the new buffer is
\* installed and the message is left with the empty tombstone.
C28_BuffersAreSwapped ==
    [][ (channel # <<>> /\ Head(channel).type = "AudioBuffer"
           /\ channel' = Tail(channel)) =>
          LET new_buffer == Head(channel).args[1]
          IN  /\ renderer'.buffer = new_buffer
              /\ IF renderer.buffer # None
                 THEN slot' = renderer.buffer
                 ELSE slot' = TombstoneBuffer /\ TombstoneBuffer.length = 0
      ]_vars

\* C28 witness: during a playback, after its first block, the buffer the
\* processor was playing has been swapped for the stereo buffer, and the
\* next block has been rendered from that one.
C28_Witness ==
    /\ slot = AudioBuffer(MaxLen, sample_rate, 1)
    /\ renderer.buffer = StereoBuffer
    /\ Len(rendered) = 2
    /\ rendered[1].track # "none"
    /\ Len(rendered[1].block) = 1
    /\ rendered[2].track # "none"
    /\ channel = <<>>

\* The sample time that follows a start time between two sample times.
NextSampleTime(start_time) == ((start_time \div dt) + 1) * dt

\* The buffer of processor r linearly interpolated at buffer time t, on
\* channel ch: between the frame at or before t and the next one (past the
\* last frame: see SlowTrackOutput), silence outside of the buffer.
InterpolatedAt(r, p, ch, t) ==
    LET playhead == t * r.buffer.sample_rate
    IN  IF t >= 0 /\ t < BufferDuration(r.buffer)
        THEN SlowTrackOutput(SlowTrackContext(r, p, 0), ch,
                             [prev_frame_index |-> playhead \div PlayheadDen,
                              k |-> playhead % PlayheadDen])
        ELSE 0

\* The step renders the block that holds the sample time following a start
\* time that lies strictly between two sample times; the source has a
\* buffer and has not started.
SubSampleStart ==
    /\ Len(rendered') > Len(rendered)
    /\ renderer.buffer # None
    /\ ~renderer.render_state.started
    /\ ~renderer.render_state.ended
    /\ renderer.start_time # F64_MAX
    /\ renderer.start_time % dt # 0
    /\ current_time <= NextSampleTime(renderer.start_time)
    /\ NextSampleTime(renderer.start_time) < current_time + block_duration

\* The block rendered in the step is silent up to the sample time that
\* follows the start time, and has there the buffer interpolated at
\* offset + (sample time - start_time) * rate.
FirstSampleInterpolated ==
    LET b == rendered'[Len(rendered')].block
        t == NextSampleTime(renderer.start_time)
        i == (t - current_time) \div dt
        at == renderer.offset +
                  (t - renderer.start_time) * computed_playback_rate(params)
    IN  /\ Len(b) = renderer.buffer.number_of_channels
        /\ \A ch \in 1..Len(b) :
              /\ \A j \in 1..i : b[ch][j] = 0
              /\ b[ch][i + 1] = InterpolatedAt(renderer, params, ch, at)

\* C29: when start_time falls strictly between two sample times, the first
\* played output sample is the one at the next sample time, and its value is
\* the buffer linearly interpolated at
\* offset + (sample time - start_time) * rate.
C29_SubSampleStartInterpolates ==
    [][ SubSampleStart => FirstSampleInterpolated ]_vars

\* The source plays a buffer at the context's rate in reverse (rate -1, not
\* looping) from offset = buffer duration, and playback has started.
PlaysReversedFromEnd ==
    /\ renderer.buffer # None
    /\ renderer.buffer.sample_rate = sample_rate
    /\ params.playback_rate = -1
    /\ params.detune = 0
    /\ ~renderer.loop_state.is_looping
    /\ renderer.offset = BufferDuration(renderer.buffer)
    /\ renderer.render_state.started

\* Output sample i of the reversed playback of buffer b on channel ch,
\* counted from the sample at start time: zero, then the frames from the
\* last to the first, then zero.
ReversedSample(b, ch, i) ==
    IF 1 <= i /\ i <= b.length
    THEN PlayheadDen * ChannelSample(b, ch, b.length - i)
    ELSE 0

\* C30: for a non-looping buffer of N frames played with playback rate -1
\* from offset = buffer duration, output sample 0 (the one at start time) is
\* zero, output sample i is frame N - i of the buffer for 1 <= i <= N, every
\* other sample is zero, and the node has ended exactly when output sample N
\* has been rendered.
C30_ReversePlaybackFromEnd ==
    PlaysReversedFromEnd =>
        LET b == renderer.buffer
            first == renderer.start_time \div dt
            rendered_samples == Len(rendered) * RENDER_QUANTUM_SIZE
        IN  /\ \A m \in 1..Len(rendered) :
                  \A j \in 1..RENDER_QUANTUM_SIZE :
                     LET i == (m - 1) * RENDER_QUANTUM_SIZE + (j - 1) - first
                     IN  IF rendered[m].track = "none" \/ i < 0
                         THEN \A ch \in 1..Len(rendered[m].block) :
                                 rendered[m].block[ch][j] = 0
                         ELSE /\ Len(rendered[m].block) = b.number_of_channels
                              /\ \A ch \in 1..b.number_of_channels :
                                    rendered[m].block[ch][j] = ReversedSample(b, ch, i)
            /\ renderer.render_state.ended <=> rendered_samples - 1 - first >= b.length
            /\ events = (IF renderer.render_state.ended THEN 1 ELSE 0)

\* C30 witness: a buffer longer than a block has been played in reverse
\* from its end, over two blocks, and the node has ended.
C30_Witness ==
    /\ PlaysReversedFromEnd
    /\ renderer.buffer = AudioBuffer(MaxLen, sample_rate, 1)
    /\ renderer.start_time = dt
    /\ Len(rendered) = 2
    /\ rendered[1].block[1][1] = 0
    /\ rendered[1].block[1][2] = 0
    /\ rendered[1].block[1][3] = PlayheadDen * ChannelSample(renderer.buffer, 1, MaxLen - 1)
    /\ rendered[2].block[1][MaxLen + 2 - RENDER_QUANTUM_SIZE] =
           PlayheadDen * ChannelSample(renderer.buffer, 1, 0)
    /\ renderer.render_state.ended
    /\ events = 1

\* C31: every call of process terminates: the render thread is never left
\* inside one of the two loop-wrap `while` loops.
C31_ProcessTerminates == thread # "hung"

RECURSIVE ReadsInsideLoop(_, _, _)
\* From sample i of the block on, with st the slow track's state before it:
\* every sample that reads the buffer while looping with entered_loop set
\* has its playhead inside [actual_loop_start, actual_loop_end).
ReadsInsideLoop(c, st, i) ==
    IF i = RENDER_QUANTUM_SIZE \/ st.hang THEN TRUE
    ELSE LET next == SlowTrackSample(c, st, i)
             info == IF Len(next.infos) > Len(st.infos)
                     THEN next.infos[Len(next.infos)] ELSE NoPlaybackInfo
             playhead == info.prev_frame_index * PlayheadDen + info.k
         IN  /\ (c.is_looping /\ next.entered_loop /\ info # NoPlaybackInfo) =>
                   /\ playhead >= c.actual_loop_start * c.buffer.sample_rate
                   /\ playhead < c.actual_loop_end * c.buffer.sample_rate
             /\ ReadsInsideLoop(c, next, i + 1)

\* The block process is about to render takes the slow track.
NextBlockOnSlowTrack ==
    /\ thread = "running"
    /\ channel = <<>>
    /\ ~AlreadyEnded(renderer)
    /\ renderer.start_time < current_time + block_duration
    /\ renderer.buffer # None
    /\ ~IsAligned(renderer, params, current_time,
                  NormalizedStartTime(renderer, current_time),
                  renderer.render_state.buffer_time)

\* C32: on the slow track, while looping with entered_loop set, every frame
\* read from the buffer is taken at a playhead inside
\* [actual_loop_start, actual_loop_end), forward and reverse, at any rate.
C32_LoopReadsInsideLoop ==
    NextBlockOnSlowTrack =>
        LET start_time == NormalizedStartTime(renderer, current_time)
            r1 == [renderer EXCEPT !.start_time = start_time]
        IN  ReadsInsideLoop(SlowTrackContext(r1, params, current_time),
                            SlowTrackInit(r1, start_time,
                                          renderer.render_state.buffer_time),
                            0)

\* C32 witness: a loop of one frame (from frame 1 to frame 2) has been
\* entered at three frames per sample, and a block is about to be rendered
\* in it.
C32_Witness ==
    /\ NextBlockOnSlowTrack
    /\ params.playback_rate = 3
    /\ renderer.loop_state.is_looping
    /\ renderer.loop_state.start = dt
    /\ renderer.loop_state.end = 2 * dt
    /\ renderer.render_state.entered_loop
    /\ Len(rendered) >= 1
    /\ rendered[Len(rendered)].track = "slow"
    /\ \E j \in 1..RENDER_QUANTUM_SIZE :
          rendered[Len(rendered)].block[1][j] # 0

\* The source has a buffer and valid loop points inside it, plays forward
\* from an offset before loop start, on a sample, and process is about to
\* render a block of it on the slow track.
PlaysIntoLoop ==
    /\ NextBlockOnSlowTrack
    /\ computed_playback_rate(params) > 0
    /\ 0 <= renderer.loop_state.start
    /\ renderer.loop_state.start < renderer.loop_state.end
    /\ renderer.loop_state.end <= BufferDuration(renderer.buffer)
    /\ renderer.offset < renderer.loop_state.start
    /\ renderer.start_time % dt = 0
    /\ renderer.render_state.started \/ renderer.loop_state.is_looping

\* The playhead of sample j of the block about to be rendered, not wrapped:
\* from offset at the sample at start time in the block that starts the
\* playback (-1: before start time), from the stored playhead afterwards.
UnwrappedPlayhead(j) ==
    LET rate == computed_playback_rate(params)
        start_time == NormalizedStartTime(renderer, current_time)
        i0 == (start_time - current_time) \div dt
    IN  IF renderer.render_state.started
        THEN renderer.render_state.buffer_time + j * dt * rate
        ELSE IF j < i0 THEN -1
        ELSE renderer.offset + (j - i0) * dt * rate

\* The playhead while looping: as it is up to loop end, and from then on
\* inside [loop_start, loop_end).
LoopedPlayhead(q) ==
    LET ls == renderer.loop_state
    IN  IF q < ls.end THEN q
        ELSE ls.start + ((q - ls.start) % (ls.end - ls.start))

\* The step is a call of process
CallsProcess == rendered' # rendered \/ thread' # thread

\* C33: a looping source with valid loop points, played forward from an
\* offset before loop start, plays the buffer from offset up to loop end and
\* from then on the region [loop_start, loop_end) only; entered_loop is set
\* by the block with the first sample at or after loop start and stays set
\* while looping is on.  With looping switched off, the next block clears
\* entered_loop and plays on from the playhead towards the end of the buffer.
C33_LoopRegionRepeats ==
    [][ (PlaysIntoLoop /\ CallsProcess) =>
          LET ls == renderer.loop_state
              last == UnwrappedPlayhead(RENDER_QUANTUM_SIZE - 1)
              blk == rendered'[Len(rendered')].block
          IN  /\ thread' = "running"
              /\ Len(rendered') = Len(rendered) + 1
              /\ Len(blk) = renderer.buffer.number_of_channels
              /\ \A ch \in 1..Len(blk) : \A j \in 0..(RENDER_QUANTUM_SIZE - 1) :
                    blk[ch][j + 1] =
                       IF UnwrappedPlayhead(j) < 0 THEN 0
                       ELSE InterpolatedAt(renderer, params, ch,
                               IF ls.is_looping
                               THEN LoopedPlayhead(UnwrappedPlayhead(j))
                               ELSE UnwrappedPlayhead(j))
              /\ renderer'.render_state.entered_loop <=>
                    /\ ls.is_looping
                    /\ \/ renderer.render_state.entered_loop
                       \/ last >= ls.start
              /\ ~ls.is_looping =>
                    (renderer'.render_state.ended <=>
                        renderer'.render_state.buffer_time >=
                            BufferDuration(renderer.buffer))
      ]_vars

\* C34: the downgrade is permanent.  Once playback has started and a block
\* has been rendered by the slow track (is_aligned is false), is_aligned
\* stays false and every later block that produces output is rendered by the
\* slow track, whether or not the conditions of the fast track hold again.
C34_DowngradeIsPermanent ==
    [][ (renderer.render_state.started /\ ~renderer.render_state.is_aligned) =>
          /\ ~renderer'.render_state.is_aligned
          /\ Len(rendered') > Len(rendered) =>
                rendered'[Len(rendered')].track # "fast"
      ]_vars

\* C34 witness: the first block was rendered by the slow track because the
\* loop end was inside the buffer; the loop end was then moved back to the
\* end of the buffer, so that every condition of the fast track held for the
\* second block, which the slow track rendered all the same.
C34_Witness ==
    /\ Len(rendered) = 2
    /\ rendered[1].track = "slow"
    /\ rendered[1].loop_end = 2 * dt
    /\ rendered[1].start_time = 0
    /\ rendered[2].track = "slow"
    /\ rendered[2].loop_end = BufferDuration(renderer.buffer)
    /\ rendered[2].loop_start = 0
    /\ renderer.offset = 0
    /\ renderer.render_state.started
    /\ ~renderer.render_state.is_aligned
    /\ FastTrackConditions(renderer, params, current_time)

\* process with the fast track taken out: the block is rendered by the slow
\* track whatever the fast-track test says.
process_slow_track(r, p, block_time) ==
    LET next_block_time == block_time + block_duration
    IN  IF AlreadyEnded(r) THEN EarlyReturn(r, FALSE)
        ELSE IF r.start_time >= next_block_time
        THEN EarlyReturn(r, r.start_time # F64_MAX)
        ELSE IF r.buffer = None THEN EarlyReturn(r, FALSE)
        ELSE
        Bind([r EXCEPT !.start_time = NormalizedStartTime(r, block_time),
                       !.render_state.is_aligned = FALSE],
             LAMBDA r1 :
                Bind(SlowTrack(r1, p, block_time, r1.start_time,
                               r.render_state.buffer_time),
                     LAMBDA slow :
                        FinishBlock(r,
                            [r |-> slow.r, block |-> slow.block,
                             buffer_time |-> slow.buffer_time,
                             fault |-> slow.fault, track |-> "slow"],
                            p, next_block_time)))

\* The schedule is one the fast track is eligible for: offset 0, rate 1,
\* equal sample rates, default loop bounds.
FastTrackEligible(r, p) ==
    /\ r.offset = 0
    /\ computed_playback_rate(p) = 1
    /\ r.buffer # None =>
          /\ r.buffer.sample_rate = sample_rate
          /\ r.loop_state.start = 0
          /\ r.loop_state.end = BufferDuration(r.buffer)

\* The state the slow track alone reaches where the processor is in state
\* r: is_aligned is never set, the loop is entered with the first sample
\* played, and a playhead that has reached the end of the loop is wrapped at
\* the next sample only.
OnSlowTrackOnly(r) ==
    LET wrapped == /\ r.loop_state.is_looping
                   /\ r.render_state.started
                   /\ r.buffer # None
                   /\ r.render_state.buffer_time = 0
    IN  [r EXCEPT !.render_state.is_aligned = FALSE,
                  !.render_state.entered_loop =
                      r.loop_state.is_looping /\ r.render_state.started,
                  !.render_state.buffer_time =
                      IF wrapped THEN BufferDuration(r.buffer) ELSE @]

\* C35: the fast track refines the slow track.  On every schedule the fast
\* track is eligible for, each call of process renders the block the slow
\* track alone renders from the corresponding state, with the same
\* buffer_time_elapsed and the same value of ended afterwards, and leaves
\* the processor in the corresponding state.
C35_FastTrackRefinesSlowTrack ==
    [][ (FastTrackEligible(renderer, params) /\ CallsProcess) =>
          LET slow == process_slow_track(OnSlowTrackOnly(renderer), params,
                                         current_time)
          IN  /\ slow.fault = "none"
              /\ thread' = "running"
              /\ Len(rendered') = Len(rendered) + 1
              /\ rendered'[Len(rendered')].block = slow.block
              /\ renderer'.render_state.buffer_time_elapsed =
                    slow.r.render_state.buffer_time_elapsed
              /\ renderer'.render_state.ended = slow.r.render_state.ended
              /\ OnSlowTrackOnly(renderer') = OnSlowTrackOnly(slow.r)
      ]_vars

\* ------------------------------------------------------------------------
\* C36: a non-looping source played forward ends
\* ------------------------------------------------------------------------

\* Forward play to the end: a non-looping source at one or three frames
\* per sample, started on or after sample 0 of the first block, with no
\* offset or with an offset past the end of the buffer, never stopped.
InitForward ==
    InitWith({ AudioBufferSourceOptions(None, 0, FALSE, 0, 0, pr) : pr \in {1, 3} })

NextForward ==
    \/ StartAt({0, dt}, {0, (MaxLen + 1) * dt}, {F64_MAX})
    \/ SetBufferCall({ AudioBuffer(2, sample_rate, 1), AudioBuffer(MaxLen, sample_rate, 1) })
    \/ OnMessage
    \/ Process

\* The render thread applies every pending message and renders the next
\* block for as long as the stream plays.
RenderThreadRuns == WF_vars(OnMessage) /\ WF_vars(Process)

SpecForward == InitForward /\ [][NextForward]_vars /\ RenderThreadRuns

\* Blocks a source of at most MaxLen frames needs from the block in which
\* it starts: the blocks that hold its frames and the one that returns
\* false.
BlocksToCollect == (MaxLen + RENDER_QUANTUM_SIZE) \div RENDER_QUANTUM_SIZE + 1

ForwardSourceReady ==
    /\ renderer # None
    /\ renderer.buffer # None
    /\ renderer.start_time # F64_MAX
    /\ ~renderer.loop_state.is_looping
    /\ computed_playback_rate(params) > 0

EndedAndCollected ==
    /\ renderer.render_state.ended
    /\ events = 1
    /\ rendered # <<>>
    /\ ~rendered[Len(rendered)].ret

\* C36: a non-looping source with a buffer, a finite start time and a
\* positive playback rate, with the blocks it needs still to be rendered,
\* leads to ended being set, its event emitted once, and a call of process
\* that returns false; and a block that leaves the playhead at or past the
\* end of the buffer sets ended.
C36_ForwardSourceEnds ==
    /\ (ForwardSourceReady /\ frames + BlocksToCollect <= MaxBlocks) ~> EndedAndCollected
    /\ [][ (ForwardSourceReady /\ CallsProcess /\ thread' = "running"
              /\ ~renderer.render_state.ended
              /\ position(renderer') >= BufferDuration(renderer.buffer))
             => renderer'.render_state.ended ]_vars

C36_Witness ==
    /\ ForwardSourceReady
    /\ renderer.buffer.length = MaxLen
    /\ EndedAndCollected
    /\ Len(rendered) = MaxBlocks
    /\ rendered[1].ret /\ rendered[2].ret
    /\ rendered[2].block[1][1] # 0

\* ------------------------------------------------------------------------
\* C37: early exits and dropped messages leave the processor as it is
\* ------------------------------------------------------------------------

\* Early exits: a source, looping or not, started now or two blocks from
\* now, with an offset or none, stopped or not, with and without a buffer,
\* and a message of another type delivered at any point.
InitEarlyExit ==
    InitWith({ AudioBufferSourceOptions(None, 0, l, 0, 0, 1) : l \in BOOLEAN })

NextEarlyExit ==
    \/ StartAt({0, 2 * block_duration}, {0, dt}, {F64_MAX})
    \/ StopAt({block_duration + dt})
    \/ SetBufferCall({ AudioBuffer(2, sample_rate, 1), AudioBuffer(MaxLen, sample_rate, 1) })
    \/ DeliverOther
    \/ OnMessage
    \/ Process

SpecEarlyExit == InitEarlyExit /\ [][NextEarlyExit]_vars

\* The three early exits of process, tested on the state before the call.
TakesEarlyExit ==
    \/ renderer.render_state.ended
    \/ renderer.start_time >= current_time + block_duration
    \/ renderer.buffer = None

\* onmessage is called with the first pending message.
CallsOnMessage == channel # <<>> /\ channel' = Tail(channel)

DropsMessage ==
    /\ CallsOnMessage
    /\ ~IsControlMessage(Head(channel))
    /\ Head(channel).type # "AudioBuffer"

\* C37: a call of process that takes an early exit and a call of onmessage
\* with a message of another type leave every field of the processor as it
\* was (start_time, stop_time, offset, duration, buffer, loop_state and the
\* render state with the shared buffer_time) and emit no event.
C37_EarlyExitsChangeNothing ==
    [][ ((CallsProcess /\ TakesEarlyExit) \/ DropsMessage)
          => /\ renderer' = renderer
             /\ events' = events
             /\ slot' = slot
             /\ thread' = thread ]_vars

\* Every early exit was taken, the one on ended with the playhead inside the
\* buffer, and a message of another type was dropped.
C37_Witness ==
    /\ posted.others = 1
    /\ channel = <<>>
    /\ renderer.render_state.ended
    /\ position(renderer) > 0
    /\ Len(rendered) = MaxBlocks
    /\ rendered[1].track = "none"
    /\ rendered[2].track # "none"
    /\ rendered[MaxBlocks].track = "none"
    /\ ~rendered[MaxBlocks].ret

\* ------------------------------------------------------------------------
\* C38: the loop state of the handle and of the processor
\* ------------------------------------------------------------------------

\* Every message the handle posted has been applied and the processor holds
\* a buffer.
AllAppliedWithBuffer ==
    /\ renderer # None
    /\ channel = <<>>
    /\ renderer.buffer # None

\* a == b on two f64 values: false when either is NaN.
F64Eq(a, b) == a # NaN /\ b # NaN /\ a = b

\* C38: once every posted message is applied and a buffer is set, loop_(),
\* loop_start() and loop_end() of the handle equal loop_state.is_looping,
\* start and end of the processor.
C38_HandleAndProcessorAgree ==
    AllAppliedWithBuffer =>
        /\ node.loop_state.is_looping = renderer.loop_state.is_looping
        /\ F64Eq(node.loop_state.start, renderer.loop_state.start)
        /\ F64Eq(node.loop_state.end, renderer.loop_state.end)

\* The handle's loop start is a number in [0, d] and its loop end a number
\* in (0, d], d the duration of the processor's buffer.
HandleLoopPointsInBuffer ==
    LET d == BufferDuration(renderer.buffer)
        h == node.loop_state
    IN  /\ h.start # NaN /\ Le(0, h.start) /\ Le(h.start, d)
        /\ h.end # NaN /\ Lt(0, h.end) /\ Le(h.end, d)

\* C38, as amended: once every posted message is applied and a buffer is
\* set, loop_() equals the processor's is_looping; a loop start of the
\* handle that is a number in [0, d] equals the processor's, one below 0 is
\* 0 in the processor and one above d is d; a loop end of the handle that
\* is a number in (0, d] equals the processor's, and any other number is d
\* in the processor.
C38_ProcessorHoldsClampedLoopState ==
    AllAppliedWithBuffer =>
        LET d == BufferDuration(renderer.buffer)
            h == node.loop_state
            ls == renderer.loop_state
        IN  /\ h.is_looping = ls.is_looping
            /\ h.start # NaN =>
                  ls.start = IF h.start < 0 THEN 0
                             ELSE IF h.start > d THEN d ELSE h.start
            /\ h.end # NaN =>
                  ls.end = IF h.end <= 0 \/ h.end > d THEN d ELSE h.end

\* C38 witness: after a loop setter call, with everything applied, handle
\* and processor agree on loop points inside the buffer.
C38_Witness ==
    /\ AllAppliedWithBuffer
    /\ loop_calls > 0
    /\ posted.buffers = 1
    /\ renderer.buffer.length = MaxLen
    /\ HandleLoopPointsInBuffer
    /\ node.loop_state.start = dt + 1
    /\ node.loop_state = renderer.loop_state

\* C38 witness of the clamped case: the handle returns the loop points as
\* given, the processor holds them clamped.
C38_WitnessClamped ==
    /\ AllAppliedWithBuffer
    /\ loop_calls > 0
    /\ node.loop_state.start = PastEnd
    /\ node.loop_state.end = -dt
    /\ renderer.loop_state.start = BufferDuration(renderer.buffer)
    /\ renderer.loop_state.end = BufferDuration(renderer.buffer)

\* ------------------------------------------------------------------------
\* C39: node ids
\* ------------------------------------------------------------------------

\* The control threads that share the context.
ControlThreads == {"a", "b"}

\* A context on which one source node was created, its RegisterNode message
\* still pending, and on which the control threads are about to register
\* further nodes.
InitRegisterCalls ==
    \E res \in { new(AudioBufferSourceOptions(None, 0, FALSE, 0, 0, 1)) } :
        /\ node = res.node
        /\ control = "alive"
        /\ loop_calls = 0
        /\ posted = [sched |-> <<>>, buffers |-> 0, others |-> 0]
        /\ channel = res.post
        /\ renderer = None
        /\ params = [playback_rate |-> 1, detune |-> 0]
        /\ frames = 0
        /\ rendered = <<>>
        /\ events = 0
        /\ clamps = 0
        /\ thread = "running"
        /\ context = fetch_add(NewAudioContext).context
        /\ slot = None
        /\ callers = [t \in ControlThreads |->
                        [pc |-> "idle", id |-> DestinationId, ids |-> <<>>]]
        /\ offline = None

\* register, up to `let node_id = AudioNodeId(id)`: the thread takes an id.
RegisterFetchAdd(t) ==
    /\ callers[t].pc = "idle"
    /\ Len(callers[t].ids) < MaxRegisterCalls
    /\ \E res \in { fetch_add(context) } :
           /\ context' = res.context
           /\ callers' = [callers EXCEPT ![t].pc = "registering", ![t].id = res.id]
    /\ UNCHANGED << node, control, loop_calls, posted, channel, renderer, params,
                    frames, rendered, events, clamps, thread, slot, offline >>

\* register, from the closure to the end: the node and its renderer are
\* built, the RegisterNode message is sent, and the node is returned.
RegisterSend(t) ==
    /\ callers[t].pc = "registering"
    /\ channel' = Append(channel,
                         RegisterNode(callers[t].id, NewRenderer(node.loop_state)))
    /\ callers' = [callers EXCEPT ![t].pc = "idle",
                                  ![t].ids = Append(@, callers[t].id)]
    /\ UNCHANGED << node, control, loop_calls, posted, renderer, params, frames,
                    rendered, events, clamps, thread, context, slot, offline >>

NextRegisterCalls ==
    \/ \E t \in ControlThreads : RegisterFetchAdd(t)
    \/ \E t \in ControlThreads : RegisterSend(t)

SpecRegisterCalls == InitRegisterCalls /\ [][NextRegisterCalls]_vars

\* The calls of register made so far by the control threads, finished or
\* not: <<t, i>> is the i-th call of thread t.
RegisterCalls ==
    { c \in ControlThreads \X (1..MaxRegisterCalls) :
        \/ c[2] <= Len(callers[c[1]].ids)
        \/ c[2] = Len(callers[c[1]].ids) + 1 /\ callers[c[1]].pc = "registering" }

CallFinished(c) == c[2] <= Len(callers[c[1]].ids)

\* The id the call obtained.
CallId(c) == IF CallFinished(c) THEN callers[c[1]].ids[c[2]] ELSE callers[c[1]].id

\* The RegisterNode messages sent that carry the id.
MessagesWithId(id) ==
    { i \in 1..Len(channel) : channel[i].type = "RegisterNode" /\ channel[i].id = id }

\* C39: every call of register, from any control thread, obtained an id
\* that differs from the id of every other call, from the id of the node
\* registered before and from the destination's id 0, and exactly one
\* RegisterNode message carries the id of a finished call, none the id of a
\* call that has not sent yet, and no RegisterNode message carries any other
\* id.
C39_NodeIdsAreUnique ==
    /\ \A c \in RegisterCalls :
          /\ CallId(c) # DestinationId
          /\ CallId(c) # fetch_add(NewAudioContext).id
          /\ \A c2 \in RegisterCalls : c2 # c => CallId(c2) # CallId(c)
          /\ Cardinality(MessagesWithId(CallId(c))) = IF CallFinished(c) THEN 1 ELSE 0
    /\ Cardinality(MessagesWithId(fetch_add(NewAudioContext).id)) = 1
    /\ Cardinality(MessagesWithId(DestinationId)) = 0
    /\ Len(channel) = 1 + Cardinality({ c \in RegisterCalls : CallFinished(c) })

\* C39 witness: every thread has made all its calls, and two calls
\* overlapped: a message with a larger id was sent before one with a
\* smaller id.
C39_Witness ==
    /\ \A t \in ControlThreads :
          callers[t].pc = "idle" /\ Len(callers[t].ids) = MaxRegisterCalls
    /\ \E i, j \in 1..Len(channel) : i < j /\ channel[i].id > channel[j].id

\* ------------------------------------------------------------------------
\* C40: offline rendering
\* ------------------------------------------------------------------------

\* crate::BUFFER_SIZE, the render quantum size of the context.
BUFFER_SIZE == RENDER_QUANTUM_SIZE

\* Longest offline buffer of the model, in samples.
MaxOfflineLength == 6 * BUFFER_SIZE

\* slice.chunks_mut(chunk_size) on a slice of len elements, each chunk as
\* [start, len]: chunks of chunk_size elements that do not overlap, from
\* the start of the slice; the last one is shorter when chunk_size does not
\* divide len.
chunks_mut(len, chunk_size) ==
    [i \in 1..((len + chunk_size - 1) \div chunk_size) |->
        [start |-> (i - 1) * chunk_size,
         len |-> IF i * chunk_size <= len THEN chunk_size
                 ELSE len - (i - 1) * chunk_size]]

\* OfflineAudioContext::new(channels, length, sample_rate): the buffer is
\* vec![0.; length].
NewOfflineAudioContext(channels, length) ==
    [channels |-> channels, length |-> length, buffer_len |-> length,
     pc |-> "new", quanta |-> <<>>, returned |-> 0]

\* An offline context of one or two channels and of every length up to
\* MaxOfflineLength, with no node but the destination.
InitOffline ==
    \E channels \in {1, 2}, length \in 0..MaxOfflineLength :
        \E n0 \in { NewNode(AudioBufferSourceOptions(None, 0, FALSE, 0, 0, 1)) } :
            /\ node = n0
            /\ control = "alive"
            /\ loop_calls = 0
            /\ posted = [sched |-> <<>>, buffers |-> 0, others |-> 0]
            /\ channel = <<>>
            /\ renderer = None
            /\ params = [playback_rate |-> 1, detune |-> 0]
            /\ frames = 0
            /\ rendered = <<>>
            /\ events = 0
            /\ clamps = 0
            /\ thread = "running"
            /\ context = NewAudioContext
            /\ slot = None
            /\ callers = <<>>
            /\ offline = NewOfflineAudioContext(channels, length)

OfflineOnly ==
    UNCHANGED << node, control, loop_calls, posted, channel, renderer, params,
                 frames, rendered, events, clamps, thread, context, slot, callers >>

\* start_rendering is called: the loop over the chunks begins.
StartRendering ==
    /\ offline # None
    /\ offline.pc = "new"
    /\ offline' = [offline EXCEPT !.pc = "rendering"]
    /\ OfflineOnly

\* One turn of the loop: self.render.render(quantum) with the next chunk.
RenderQuantum ==
    /\ offline # None
    /\ offline.pc = "rendering"
    /\ Len(offline.quanta) < Len(chunks_mut(offline.buffer_len, BUFFER_SIZE))
    /\ offline' = [offline EXCEPT !.quanta =
          Append(@, chunks_mut(offline.buffer_len, BUFFER_SIZE)[Len(@) + 1])]
    /\ OfflineOnly

\* The loop is over: self.buffer.as_slice() is returned.
ReturnBuffer ==
    /\ offline # None
    /\ offline.pc = "rendering"
    /\ Len(offline.quanta) = Len(chunks_mut(offline.buffer_len, BUFFER_SIZE))
    /\ offline' = [offline EXCEPT !.pc = "returned", !.returned = offline.buffer_len]
    /\ OfflineOnly

NextOffline ==
    \/ StartRendering
    \/ RenderQuantum
    \/ ReturnBuffer

SpecOffline == InitOffline /\ [][NextOffline]_vars

\* The chunks handed to the render thread so far are consecutive, in order
\* and do not overlap; when start_rendering has returned they cover the
\* buffer, and the slice returned has `length` samples.
QuantaInOrder ==
    /\ \A i \in 1..Len(offline.quanta) :
          offline.quanta[i].start =
              IF i = 1 THEN 0
              ELSE offline.quanta[i - 1].start + offline.quanta[i - 1].len
    /\ offline.pc = "returned" =>
          /\ offline.returned = offline.length
          /\ offline.length =
                IF offline.quanta = <<>> THEN 0
                ELSE offline.quanta[Len(offline.quanta)].start +
                     offline.quanta[Len(offline.quanta)].len

\* C40: offline rendering hands the render thread consecutive blocks in
\* order that do not overlap, each of exactly BUFFER_SIZE samples, and
\* returns exactly `length` samples, whatever the length.
C40_OfflineBlocksAreQuanta ==
    /\ QuantaInOrder
    /\ \A i \in 1..Len(offline.quanta) : offline.quanta[i].len = BUFFER_SIZE

\* Everything C40 states but the size of the last block: every block but
\* the last has BUFFER_SIZE samples, and the last has the samples left.
OfflineBlocksButLast ==
    /\ QuantaInOrder
    /\ \A i \in 1..Len(offline.quanta) :
          /\ offline.quanta[i].len >= 1
          /\ offline.quanta[i].len <= BUFFER_SIZE
          /\ offline.quanta[i].len < BUFFER_SIZE =>
                offline.quanta[i].start + offline.quanta[i].len = offline.length

=============================================================================
